---- MODULE Spec2Model ----
(***************************************************************************)
(* A model of the sipacker-ua SIP softphone.                               *)
(*                                                                         *)
(* Spec         the command loop (app/application.rs), the user agent      *)
(*              coordinator and its outbound call (sipacker/user_agent.rs) *)
(*              and the audio streams (sipacker/audio.rs).                 *)
(* SpecTimeout  Spec with a remote party that never answers, no terminate  *)
(*              and no stop command, and fair timers and loop.             *)
(* SpecInvite   the layer that answers incoming INVITE requests            *)
(*              (sipacker/invite_acceptor_layer.rs).                       *)
(* SpecCall     the call state machine (sipacker/call.rs) run by a         *)
(*              coordinator that holds one Call.                           *)
(* SpecProtocol SpecCall with a library that may give an established call  *)
(*              a media event a second time.                               *)
(* SpecDrop     SpecCall with a coordinator that may be destroyed while it *)
(*              holds a call.                                              *)
(* SpecRtp      the RTP packetizer (RtpFactory of sipacker/call.rs) fed by *)
(*              the audio input callback (sipacker/audio.rs), started      *)
(*              fresh or after a long run of 160-byte payloads.            *)
(* SpecQueue    the two audio queues of an established call, each with the *)
(*              backlog of a slow consumer, their producers (the input     *)
(*              callback, the receiving task) and their consumers.         *)
(* SpecReg      the registration controller (sipacker/registrator.rs) with *)
(*              its task, on a multi-threaded runtime; SpecRegFair adds    *)
(*              fair scheduling of the task.                               *)
(* SpecAudio    the two devices of the audio system (sipacker/audio.rs)    *)
(*              under any order of stream creations and destructions.      *)
(* SpecKind     the conversion of a status code to a registration status   *)
(*              kind, applied to one code.                                 *)
(*                                                                         *)
(* Values of Option<T> are sequences of length 0 (None) or 1 (Some).       *)
(***************************************************************************)
EXTENDS Integers, Sequences, FiniteSets, TLC

VARIABLES
    stop_app,       \* App.stop_app
    loop_pc,        \* position of App::run inside one loop iteration
    out_stream,     \* AudioSystem.out_device.stream.is_some()
    in_stream,      \* AudioSystem.in_device.stream.is_some()
    events,         \* UserAgent.events
    reg_data,       \* UserAgent.reg_data
    out_call,       \* UserAgent.out_call
    detached,       \* spawned tasks still running whose JoinHandle was dropped
    wire,           \* requests issued to the remote party, per call
    ncmds,          \* commands executed so far
    ncalls,         \* outbound calls constructed so far
    nregs,          \* registrations obtained so far
    emitted,        \* history: every event pushed to UserAgent.events
    delivered,      \* history: every event returned by UserAgent::run
    step,           \* history: the command executed last
    tick,           \* history: what this loop iteration's UserAgent::run returned
    \* ---- InviteAcceptLayer (SpecInvite)
    invite_action,     \* InviteAcceptLayerInner.invite_action
    incoming_from,     \* InviteAcceptLayerInner.incoming_from
    outgoing_contact,  \* InviteAcceptLayerInner.outgoing_contact.is_some()
    handler,           \* per INVITE: where its Layer::receive call stands
    responses,         \* per INVITE: the status codes sent for it, in order
    \* ---- the call state machine of call.rs (SpecCall)
    ua_call,           \* the coordinator's Option<Call>
    call_task,         \* per call: its calling task
    call_cancel,       \* per call: its CancellationToken has fired
    action_channel,    \* per incoming call: the mpsc channel of IncomingCallAction
    media,             \* per call: its sending and its receiving task
    sent,              \* what the calling tasks and terminate sent to the remote
    call_events,       \* history: the events the call state machine gave
    ended,             \* history: the calls that ended without being established
    nmade,             \* calls created so far
    since_terminate,   \* history, per call: ticks since its terminate returned
    spawned,           \* history, per call: media tasks spawned, by direction
    run_step,          \* history: what the last run of a call state was given and gave
    ua_gone,           \* the coordinator is gone: "No", "Panicked", or the state it
                       \* held when it was destroyed
    \* ---- the RTP packetizer and the audio input path (SpecRtp)
    overflow_checks,   \* the build traps integer overflow (debug) or wraps (release)
    codec_pt,          \* the payload type of the codec given with SenderAdded
    rtp_factory,       \* the sending task's RtpFactory
    audio_channel,     \* the mpsc channel from the input callback to the task
    sending_task,      \* the sending task: Running, Panicked or Ended
    packets,           \* history: the packets the factory produced, in order
    made,              \* history: packets the factory has produced in all
    ncallbacks,        \* input callbacks so far
    dequeued,          \* history: the chunks recv gave the sending task, in order
    sent_at_end,       \* history: the packets made when the task left its loop
    out_channel,    \* the queue from the receiving task to the output callback
    try_sent,       \* history: the last try_send of a producer, and what it did
    nreceived,      \* RTP packets the receiving task took so far
    nwritten,       \* output callbacks so far
    \* ---- the registration controller of registrator.rs (SpecReg, SpecKind)
    reg_task,              \* Registrator.reg_task
    last_response_status,  \* Registrator.last_response_status
    registering,           \* the task spawned by run_registration
    status_lock,           \* who holds the mutex of last_response_status
    waiter,                \* a caller of wait_for_registration_response
    stopper,               \* a caller of stop_registration
    reg_step,              \* history: the controller operation that returned last
    attempts,              \* history: REGISTER transactions the task has started
    nregops,               \* run_registration and stop_registration calls so far
    status_code,           \* the Code given to RegistrationStatusKind::from
    status_kind,           \* the RegistrationStatusKind it returned
    \* ---- the devices of the audio system, stream by stream (SpecAudio)
    out_device,            \* AudioSystem.out_device.stream
    in_device,             \* AudioSystem.in_device.stream
    audio_step,            \* history: the stream operation executed last
    nstreams               \* streams built so far

appVars == <<stop_app, loop_pc, out_stream, in_stream, events, reg_data, out_call,
             detached, wire, ncmds, ncalls, nregs, emitted, delivered, step, tick>>

\* The variables Spec leaves alone.
inviteVars == <<invite_action, incoming_from, outgoing_contact, handler, responses>>

callVars == <<ua_call, call_task, call_cancel, action_channel, media, sent,
              call_events, ended, nmade, since_terminate, spawned, run_step, ua_gone>>

rtpVars == <<overflow_checks, codec_pt, rtp_factory, audio_channel, sending_task,
             packets, made, ncallbacks, dequeued, sent_at_end, out_channel,
             try_sent, nreceived, nwritten>>

\* The receiving direction of the media.
outVars == <<out_channel, nreceived, nwritten>>

regVars == <<reg_task, last_response_status, registering, status_lock, waiter,
             stopper, reg_step, attempts, nregops, status_code, status_kind>>

audioVars == <<out_device, in_device, audio_step, nstreams>>

notApp == <<inviteVars, callVars, rtpVars, regVars, audioVars>>

\* The variables SpecInvite leaves alone.
notInvite == <<appVars, callVars, rtpVars, regVars, audioVars>>

\* The variables SpecCall leaves alone.
notCall == <<appVars, inviteVars, rtpVars, regVars, audioVars>>

\* The variables SpecRtp leaves alone.
notRtp == <<appVars, inviteVars, callVars, regVars, audioVars>>

\* The variables SpecReg and SpecKind leave alone.
notReg == <<appVars, inviteVars, callVars, rtpVars, audioVars>>

\* The variables SpecAudio leaves alone.
notAudio == <<appVars, inviteVars, callVars, rtpVars, regVars>>

vars == <<appVars, notApp>>

(* Number of commands the operator types. *)
MaxCmds == 4

(* Number of INVITE requests the remote parties send. *)
MaxInvites == 2

(* Number of calls, outgoing and incoming, the call state machine is given. *)
MaxCalls == 2

(* Number of buffers the audio input callback is given. *)
MaxChunks == 3

(* Number of run_registration and stop_registration calls. *)
MaxRegOps == 3

(* Number of REGISTER transactions the registration task starts. *)
MaxRegisters == 3

(* The largest status code given to the conversion. *)
MaxCode == 999

(* Number of audio streams the devices build. *)
MaxStreams == 4

\* const WAIT_FOR_ACTION_TIMEOUT_S
WAIT_FOR_ACTION_TIMEOUT_S == 10

\* ------------------------------------------------------------------ Option

NoneV == <<>>

Some(x) == <<x>>

IsSome(o) == o # <<>>

Unwrap(o) == o[1]

\* ------------------------------------------------------------------ events

Event(kind, call) == [kind |-> kind, call |-> call]

\* VecDeque::push_back
push_back(q, e) == Append(q, e)

\* a wrong VecDeque end: pops the newest event
pop_back(q) ==
    IF q = <<>> THEN [event |-> NoneV, rest |-> q]
    ELSE [event |-> Some(q[Len(q)]), rest |-> SubSeq(q, 1, Len(q) - 1)]

\* VecDeque::pop_front
pop_front(q) ==
    IF q = <<>> THEN [event |-> NoneV, rest |-> q]
    ELSE [event |-> Some(Head(q)), rest |-> Tail(q)]

\* ------------------------------------------------------------------ out_call

\* The calling task: pc is the await it is suspended at.
\*   select1     first select!: cancellation | sleep(waiting_duration) | wait_for_completion
\*   cancelling  out_call.cancel().await after an error of the first select!
\*   select2     second select!: cancellation | completed_call.finish()
\*   finished    the task returned res
Task(pc, res) == [pc |-> pc, res |-> res]

OutCall_new(id) ==
    [id            |-> id,
     audio_sender  |-> TRUE,
     audio_receiver|-> TRUE,
     calling_task  |-> Some(Task("select1", "None")),
     cancellation  |-> FALSE,
     call          |-> FALSE,
     sender_task   |-> "None",
     receiver_task |-> "None"]

\* The calling task run to its end once the cancellation token has fired;
\* cancel_res is the result of the library's CANCEL request where one is sent.
run_calling_task_cancelled(t, cancel_res) ==
    CASE t.pc = "select1" ->
            Task("finished", IF cancel_res = "Ok" THEN "ErrCancelled" ELSE "ErrCancel")
      [] t.pc = "cancelling" ->
            Task("finished", IF cancel_res = "Ok" THEN t.res ELSE "ErrCancel")
      [] t.pc = "select2" -> Task("finished", "ErrCancelled")
      [] OTHER -> t

\* What the cancelled calling task sends before it ends.
run_calling_task_cancelled_wire(t, id) ==
    IF t.pc = "select1" THEN {<<id, "CANCEL">>} ELSE {}

\* OutCall::cancel: the call it leaves and what it put on the wire.
OutCall_cancel(oc, cancel_res) ==
    [oc   |-> [oc EXCEPT !.calling_task = NoneV,
                         !.cancellation = oc.cancellation \/ IsSome(oc.calling_task),
                         !.sender_task = "None",
                         !.receiver_task = "None",
                         !.call = FALSE],
     wire |-> (IF IsSome(oc.calling_task)
               THEN run_calling_task_cancelled_wire(Unwrap(oc.calling_task), oc.id)
               ELSE {})
              \cup (IF oc.call THEN {<<oc.id, "BYE">>} ELSE {})]

\* The events the library's Call::run can return for the call oc.  The one
\* audio media of create_media adds its sender and its receiver once each.
CallRunEvents(oc) ==
    {"Terminated", "Err"}
    \cup (IF oc.audio_receiver THEN {"SenderAdded"} ELSE {})
    \cup (IF oc.audio_sender THEN {"ReceiverAdded"} ELSE {})

\* OutCall::run; lib is what the library's Call::run returns when it is polled.
OutCall_run(oc, lib, cancel_res) ==
    IF IsSome(oc.calling_task) /\ Unwrap(oc.calling_task).pc = "finished" THEN
        IF Unwrap(oc.calling_task).res = "Ok"
        THEN [oc |-> [oc EXCEPT !.calling_task = NoneV, !.call = TRUE],
              res |-> "Ok", event |-> Some("CallEstablished"), wire |-> {}]
        ELSE [oc |-> [oc EXCEPT !.calling_task = NoneV],
              res |-> "Err", event |-> NoneV, wire |-> {}]
    ELSE IF oc.call THEN
        CASE lib = "SenderAdded" ->
                [oc |-> [oc EXCEPT !.audio_receiver = FALSE, !.sender_task = "Running"],
                 res |-> "Ok", event |-> NoneV, wire |-> {}]
          [] lib = "ReceiverAdded" ->
                [oc |-> [oc EXCEPT !.audio_sender = FALSE, !.receiver_task = "Running"],
                 res |-> "Ok", event |-> NoneV, wire |-> {}]
          [] lib = "Terminated" ->
                [oc |-> OutCall_cancel(oc, cancel_res).oc,
                 res |-> "Ok", event |-> Some("CallTerminated"),
                 wire |-> OutCall_cancel(oc, cancel_res).wire]
          [] OTHER ->
                [oc |-> oc, res |-> "Err", event |-> NoneV, wire |-> {}]
    ELSE [oc |-> oc, res |-> "Ok", event |-> NoneV, wire |-> {}]

\* The tasks of oc that keep running when oc is dropped: dropping a JoinHandle
\* detaches its task.
RunningTasks(oc) ==
    (IF IsSome(oc.calling_task) /\ Unwrap(oc.calling_task).pc # "finished"
     THEN {<<oc.id, "calling">>} ELSE {})
    \cup (IF oc.sender_task = "Running" THEN {<<oc.id, "sender">>} ELSE {})
    \cup (IF oc.receiver_task = "Running" THEN {<<oc.id, "receiver">>} ELSE {})

\* ------------------------------------------------------------------ the calling task

\* a wrong timeout: the task ends its wait and no CANCEL goes out
CallingTaskTimeout_no_cancel ==
    /\ IsSome(out_call)
    /\ IsSome(Unwrap(out_call).calling_task)
    /\ Unwrap(Unwrap(out_call).calling_task).pc = "select1"
    /\ out_call' = Some([Unwrap(out_call) EXCEPT
                            !.calling_task = Some(Task("cancelling", "ErrTimedOut"))])
    /\ UNCHANGED <<stop_app, loop_pc, out_stream, in_stream, events, reg_data,
                   detached, wire, ncmds, ncalls, nregs, emitted, delivered, step, tick>>
    /\ UNCHANGED notApp

\* run_calling_task, first select!: sleep(waiting_duration) wins; the task
\* goes on to out_call.cancel().
CallingTaskTimeout ==
    /\ IsSome(out_call)
    /\ IsSome(Unwrap(out_call).calling_task)
    /\ Unwrap(Unwrap(out_call).calling_task).pc = "select1"
    /\ out_call' = Some([Unwrap(out_call) EXCEPT
                            !.calling_task = Some(Task("cancelling", "ErrTimedOut"))])
    /\ wire' = wire \cup {<<Unwrap(out_call).id, "CANCEL">>}
    /\ UNCHANGED <<stop_app, loop_pc, out_stream, in_stream, events, reg_data,
                   detached, ncmds, ncalls, nregs, emitted, delivered, step, tick>>
    /\ UNCHANGED notApp

\* run_calling_task, first select!: wait_for_completion wins with the
\* remote's final answer (resp = "Ok": the INVITE succeeded).
CallingTaskCompleted(resp) ==
    /\ IsSome(out_call)
    /\ IsSome(Unwrap(out_call).calling_task)
    /\ Unwrap(Unwrap(out_call).calling_task).pc = "select1"
    /\ IF resp = "Ok"
       THEN /\ out_call' = Some([Unwrap(out_call) EXCEPT
                                    !.calling_task = Some(Task("select2", "None"))])
            /\ wire' = wire
       ELSE /\ out_call' = Some([Unwrap(out_call) EXCEPT
                                    !.calling_task = Some(Task("cancelling", "ErrCompletion"))])
            /\ wire' = wire \cup {<<Unwrap(out_call).id, "CANCEL">>}
    /\ UNCHANGED <<stop_app, loop_pc, out_stream, in_stream, events, reg_data,
                   detached, ncmds, ncalls, nregs, emitted, delivered, step, tick>>
    /\ UNCHANGED notApp

\* run_calling_task: out_call.cancel().await? returns and the task ends.
CallingTaskCancelDone(cancel_res) ==
    /\ IsSome(out_call)
    /\ IsSome(Unwrap(out_call).calling_task)
    /\ Unwrap(Unwrap(out_call).calling_task).pc = "cancelling"
    /\ out_call' = Some([Unwrap(out_call) EXCEPT
            !.calling_task = Some(Task("finished",
                IF cancel_res = "Ok" THEN Unwrap(Unwrap(out_call).calling_task).res
                ELSE "ErrCancel"))])
    /\ UNCHANGED <<stop_app, loop_pc, out_stream, in_stream, events, reg_data,
                   detached, wire, ncmds, ncalls, nregs, emitted, delivered, step, tick>>
    /\ UNCHANGED notApp

\* run_calling_task, second select!: completed_call.finish() returns.
CallingTaskFinishDone(finish_res) ==
    /\ IsSome(out_call)
    /\ IsSome(Unwrap(out_call).calling_task)
    /\ Unwrap(Unwrap(out_call).calling_task).pc = "select2"
    /\ out_call' = Some([Unwrap(out_call) EXCEPT
            !.calling_task = Some(Task("finished",
                IF finish_res = "Ok" THEN "Ok" ELSE "ErrFinish"))])
    /\ UNCHANGED <<stop_app, loop_pc, out_stream, in_stream, events, reg_data,
                   detached, wire, ncmds, ncalls, nregs, emitted, delivered, step, tick>>
    /\ UNCHANGED notApp

\* A media task of the current call leaves its loop: the audio channel is
\* closed or sender.send failed (sender), receiver.recv returned None (receiver).
MediaTaskExit(dir) ==
    /\ IsSome(out_call)
    /\ IF dir = "sender"
       THEN /\ Unwrap(out_call).sender_task = "Running"
            /\ out_call' = Some([Unwrap(out_call) EXCEPT !.sender_task = "Finished"])
       ELSE /\ Unwrap(out_call).receiver_task = "Running"
            /\ out_call' = Some([Unwrap(out_call) EXCEPT !.receiver_task = "Finished"])
    /\ UNCHANGED <<stop_app, loop_pc, out_stream, in_stream, events, reg_data,
                   detached, wire, ncmds, ncalls, nregs, emitted, delivered, step, tick>>
    /\ UNCHANGED notApp

\* A detached task leaves its loop.
DetachedTaskExit(t) ==
    /\ t \in detached
    /\ detached' = detached \ {t}
    /\ UNCHANGED <<stop_app, loop_pc, out_stream, in_stream, events, reg_data,
                   out_call, wire, ncmds, ncalls, nregs, emitted, delivered, step, tick>>
    /\ UNCHANGED notApp

\* ------------------------------------------------------------------ UserAgent

is_registered == IsSome(reg_data)

has_active_call == IsSome(out_call)

\* self.events.push_back(event)
Emit(e) ==
    /\ events' = push_back(events, e)
    /\ emitted' = Append(emitted, e)

\* a wrong register: installs the binding and pushes Registered whatever
\* the exchange gave
UA_register_always(outcome) ==
    /\ reg_data' = Some(nregs + 1)
    /\ nregs' = nregs + 1
    /\ Emit(Event("Registered", 0))

\* UserAgent::register; outcome is that of make_sip_uri and of the REGISTER
\* exchange of sip_client.register ("RegErr": e.g. 401 then 403).
UA_register(outcome) ==
    IF outcome = "Ok"
    THEN /\ reg_data' = Some(nregs + 1)
         /\ nregs' = nregs + 1
         /\ Emit(Event("Registered", 0))
    ELSE UNCHANGED <<reg_data, nregs, events, emitted>>

\* UserAgent::unregister
UA_unregister ==
    /\ reg_data' = NoneV
    /\ Emit(Event("Unregistered", 0))

\* UserAgent::make_call; outcome is that of make_sip_uri, create_media and
\* registration.make_call.
UA_make_call(outcome) ==
    IF is_registered /\ outcome = "Ok"
    THEN /\ out_call' = Some(OutCall_new(ncalls + 1))
         /\ ncalls' = ncalls + 1
         /\ detached' = detached \cup
                (IF IsSome(out_call) THEN RunningTasks(Unwrap(out_call)) ELSE {})
         /\ Emit(Event("Calling", ncalls + 1))
    ELSE UNCHANGED <<out_call, ncalls, detached, events, emitted>>

UA_make_call_result(outcome) ==
    IF is_registered /\ outcome = "Ok" THEN "Ok" ELSE "Err"

\* a wrong terminate_call: cancels the call but leaves it in the slot
UA_terminate_call_keeps(cancel_res) ==
    IF IsSome(out_call)
    THEN LET c == OutCall_cancel(Unwrap(out_call), cancel_res) IN
         /\ out_call' = Some(c.oc)
         /\ wire' = wire \cup c.wire
         /\ detached' = detached
         /\ Emit(Event("CallTerminated", c.oc.id))
    ELSE UNCHANGED <<out_call, wire, detached, events, emitted>>

\* UserAgent::terminate_call
UA_terminate_call(cancel_res) ==
    IF IsSome(out_call)
    THEN LET c == OutCall_cancel(Unwrap(out_call), cancel_res) IN
         /\ out_call' = NoneV
         /\ wire' = wire \cup c.wire
         /\ detached' = detached \cup RunningTasks(c.oc)
         /\ Emit(Event("CallTerminated", c.oc.id))
    ELSE UNCHANGED <<out_call, wire, detached, events, emitted>>

\* a wrong update_call: logs the error of the call step and keeps the call
UA_update_call_keeps(lib, cancel_res) ==
    IF IsSome(out_call)
    THEN LET r == OutCall_run(Unwrap(out_call), lib, cancel_res) IN
         /\ IF IsSome(r.event)
            THEN Emit(Event(Unwrap(r.event), r.oc.id))
            ELSE UNCHANGED <<events, emitted>>
         /\ IF r.event = Some("CallTerminated")
            THEN /\ out_call' = NoneV
                 /\ detached' = detached \cup RunningTasks(r.oc)
            ELSE /\ out_call' = Some(r.oc)
                 /\ detached' = detached
         /\ wire' = wire \cup r.wire
    ELSE UNCHANGED <<out_call, detached, wire, events, emitted>>

\* UserAgent::update_call
UA_update_call(lib, cancel_res) ==
    IF IsSome(out_call)
    THEN LET r == OutCall_run(Unwrap(out_call), lib, cancel_res)
             is_err == r.res = "Err"
         IN
         /\ IF IsSome(r.event)
            THEN Emit(Event(Unwrap(r.event), r.oc.id))
            ELSE IF is_err
                 THEN Emit(Event("CallTerminated", r.oc.id))
                 ELSE UNCHANGED <<events, emitted>>
         /\ IF is_err \/ r.event = Some("CallTerminated")
            THEN /\ out_call' = NoneV
                 /\ detached' = detached \cup RunningTasks(r.oc)
            ELSE /\ out_call' = Some(r.oc)
                 /\ detached' = detached
         /\ wire' = wire \cup r.wire
    ELSE UNCHANGED <<out_call, detached, wire, events, emitted>>

\* What OutCall::run returned to update_call ("None": no call to run)
UA_update_call_result(lib, cancel_res) ==
    IF IsSome(out_call) THEN OutCall_run(Unwrap(out_call), lib, cancel_res).res ELSE "None"

\* What a loop iteration saw: run is the Result of UserAgent::run (update_call
\* returns nothing, so it is Ok on both paths), call the Result of the call step.
Tick(run, call_res) == [run |-> run, call |-> call_res]

\* A variant of run that returns the oldest event and leaves it queued.
UA_run_keeps_event(lib, cancel_res) ==
    LET p == pop_front(events) IN
    IF IsSome(p.event)
    THEN /\ events' = events
         /\ delivered' = Append(delivered, Unwrap(p.event))
         /\ UNCHANGED <<out_call, detached, wire, emitted>>
    ELSE /\ UA_update_call(lib, cancel_res)
         /\ delivered' = delivered

\* UserAgent::run: a queued event is returned, else the call is updated.
UA_run(lib, cancel_res) ==
    LET p == pop_front(events) IN
    IF IsSome(p.event)
    THEN /\ events' = p.rest
         /\ delivered' = Append(delivered, Unwrap(p.event))
         /\ UNCHANGED <<out_call, detached, wire, emitted>>
    ELSE /\ UA_update_call(lib, cancel_res)
         /\ delivered' = delivered

\* ------------------------------------------------------------------ AudioSystem

\* Device::create_stream, as [res, stream]; dev is the outcome of the
\* device's build_stream.
create_stream(stream, dev) ==
    IF stream THEN [res |-> "Err", stream |-> TRUE]
    ELSE IF dev = "Ok" THEN [res |-> "Ok", stream |-> TRUE]
    ELSE [res |-> "Err", stream |-> FALSE]

\* Device::destroy_stream
destroy_stream(stream) == FALSE

\* ------------------------------------------------------------------ App

\* App::handle_ua_event for the event UserAgent::run returned
handle_ua_event(event) ==
    IF IsSome(event) /\ Unwrap(event).kind = "CallTerminated"
    THEN /\ in_stream' = destroy_stream(in_stream)
         /\ out_stream' = destroy_stream(out_stream)
    ELSE UNCHANGED <<in_stream, out_stream>>

\* App::update_user_agent, the first half of a loop iteration.  An
\* established call's Call::run is awaited until the library has an event.
App_update_user_agent(lib, cancel_res) ==
    /\ loop_pc = "update"
    /\ IsSome(out_call) => lib \in CallRunEvents(Unwrap(out_call))
    /\ UA_run(lib, cancel_res)
    /\ handle_ua_event(pop_front(events).event)
    /\ loop_pc' = "command"
    /\ tick' = Tick("Ok", IF events # <<>> THEN "None"
                           ELSE UA_update_call_result(lib, cancel_res))
    /\ UNCHANGED <<stop_app, reg_data, ncmds, ncalls, nregs, step>>
    /\ UNCHANGED notApp

\* App::run: command_receiver.try_recv() finds no command; sleep, next iteration.
App_no_command ==
    /\ loop_pc = "command"
    /\ loop_pc' = "update"
    /\ tick' = Tick("None", "None")
    /\ UNCHANGED <<stop_app, out_stream, in_stream, events, reg_data, out_call,
                   detached, wire, ncmds, ncalls, nregs, emitted, delivered, step>>
    /\ UNCHANGED notApp

\* A variant in which the loop does not look at stop_app.
CommandDone_loops_on(op, res, stop) ==
    /\ loop_pc = "command"
    /\ ncmds < MaxCmds
    /\ ncmds' = ncmds + 1
    /\ stop_app' = stop
    /\ step' = [op |-> op, res |-> res]
    /\ tick' = Tick("None", "None")
    /\ loop_pc' = "update"
    /\ delivered' = delivered
    /\ UNCHANGED notApp

\* What every executed command does to the loop: sleep, then `while !stop_app`.
CommandDone(op, res, stop) ==
    /\ loop_pc = "command"
    /\ ncmds < MaxCmds
    /\ ncmds' = ncmds + 1
    /\ stop_app' = stop
    /\ step' = [op |-> op, res |-> res]
    /\ tick' = Tick("None", "None")
    /\ loop_pc' = IF stop_app' THEN "stopped" ELSE "update"
    /\ delivered' = delivered
    /\ UNCHANGED notApp

\* App::register_ua
App_register_ua(outcome) ==
    /\ UA_register(outcome)
    /\ CommandDone("Register", IF outcome = "Ok" THEN "Ok" ELSE "Err", stop_app)
    /\ UNCHANGED <<out_stream, in_stream, out_call, detached, wire, ncalls>>

\* a wrong unregister: drops the call with the binding
App_unregister_drops_call ==
    /\ UA_unregister
    /\ out_call' = NoneV
    /\ detached' = detached \cup
            (IF IsSome(out_call) THEN RunningTasks(Unwrap(out_call)) ELSE {})
    /\ CommandDone("Unregister", "Ok", stop_app)
    /\ UNCHANGED <<out_stream, in_stream, wire, ncalls, nregs>>

\* App::unregister
App_unregister ==
    /\ UA_unregister
    /\ CommandDone("Unregister", "Ok", stop_app)
    /\ UNCHANGED <<out_stream, in_stream, out_call, detached, wire,
                   ncalls, nregs>>

\* App::make_call after its two checks: the streams, then UserAgent::make_call
App_make_call_streams(outdev, indev, outcome) ==
    LET o == create_stream(out_stream, outdev)
        i == create_stream(in_stream, indev)
    IN
    IF o.res = "Err"
    THEN /\ CommandDone("MakeCall", "Err", stop_app)
         /\ UNCHANGED <<out_stream, in_stream, events, reg_data, out_call,
                        detached, wire, ncalls, nregs, emitted>>
    ELSE IF i.res = "Err"
    THEN /\ out_stream' = o.stream
         /\ CommandDone("MakeCall", "Err", stop_app)
         /\ UNCHANGED <<in_stream, events, reg_data, out_call,
                        detached, wire, ncalls, nregs, emitted>>
    ELSE /\ out_stream' = o.stream
         /\ in_stream' = i.stream
         /\ UA_make_call(outcome)
         /\ CommandDone("MakeCall", UA_make_call_result(outcome), stop_app)
         /\ UNCHANGED <<reg_data, wire, nregs>>

\* a wrong make_call: goes on without the two checks
App_make_call_unchecked(outdev, indev, outcome) ==
    App_make_call_streams(outdev, indev, outcome)

\* App::make_call
App_make_call(outdev, indev, outcome) ==
    IF ~is_registered \/ has_active_call
    THEN /\ CommandDone("MakeCall", "Err", stop_app)
         /\ UNCHANGED <<out_stream, in_stream, events, reg_data, out_call,
                        detached, wire, ncalls, nregs, emitted>>
    ELSE App_make_call_streams(outdev, indev, outcome)

\* a wrong terminate_call: does not check that a call is active
App_terminate_call_unchecked(cancel_res) ==
    /\ UA_terminate_call(cancel_res)
    /\ CommandDone("TerminateCall", "Ok", stop_app)
    /\ UNCHANGED <<out_stream, in_stream, reg_data, ncalls, nregs>>

\* App::terminate_call
App_terminate_call(cancel_res) ==
    /\ IF ~has_active_call
       THEN /\ CommandDone("TerminateCall", "Err", stop_app)
            /\ UNCHANGED <<out_call, wire, detached, events, emitted>>
       ELSE /\ UA_terminate_call(cancel_res)
            /\ CommandDone("TerminateCall", "Ok", stop_app)
    /\ UNCHANGED <<out_stream, in_stream, reg_data, ncalls, nregs>>

\* App::stop_app
App_stop_app ==
    /\ CommandDone("StopApp", "Ok", TRUE)
    /\ UNCHANGED <<out_stream, in_stream, events, reg_data, out_call,
                   detached, wire, ncalls, nregs, emitted>>

\* ------------------------------------------------------------------ InviteAcceptLayer

Invites == 1..MaxInvites

\* A Layer::receive call: pc is the await it is suspended at, tries the
\* iterations of wait_for_invite_action done, why the way it returned.
Handler(pc, tries, why) == [pc |-> pc, tries |-> tries, why |-> why]

\* The endpoint hands INVITE i to Layer::receive, which calls
\* handle_invite_req; requests are handed over in the order they arrive.
receive(i) ==
    /\ handler[i].pc = "idle"
    /\ \A j \in Invites : j < i => handler[j].pc # "idle"
    /\ handler' = [handler EXCEPT ![i] = Handler("outgoing_contact", 0, "None")]
    /\ UNCHANGED <<invite_action, incoming_from, outgoing_contact, responses>>
    /\ UNCHANGED notInvite

\* handle_invite_req: self.outgoing_contact().await
handle_invite_req_contact(i) ==
    /\ handler[i].pc = "outgoing_contact"
    /\ handler' = [handler EXCEPT ![i] =
            IF outgoing_contact THEN Handler("has_active_incoming", 0, "None")
            ELSE Handler("returned", 0, "NoContact")]
    /\ UNCHANGED <<invite_action, incoming_from, outgoing_contact, responses>>
    /\ UNCHANGED notInvite

\* handle_invite_req: self.has_active_incoming().await
handle_invite_req_active(i) ==
    /\ handler[i].pc = "has_active_incoming"
    /\ handler' = [handler EXCEPT ![i] =
            IF IsSome(incoming_from) THEN Handler("returned", 0, "ActiveIncoming")
            ELSE Handler("lock_inner", 0, "None")]
    /\ UNCHANGED <<invite_action, incoming_from, outgoing_contact, responses>>
    /\ UNCHANGED notInvite

\* handle_invite_req: the block that locks inner and records the INVITE, then
\* Dialog::new_server (dialog is its outcome) and InviteAcceptor::new.
handle_invite_req_record(i, dialog) ==
    /\ handler[i].pc = "lock_inner"
    /\ incoming_from' = Some(i)
    /\ invite_action' = NoneV
    /\ handler' = [handler EXCEPT ![i] =
            IF dialog = "Ok" THEN Handler("wait_for_invite_action", 0, "None")
            ELSE Handler("returned", 0, "DialogErr")]
    /\ UNCHANGED <<outgoing_contact, responses>>
    /\ UNCHANGED notInvite

\* wait_for_invite_action: one iteration of its loop, or its end
wait_for_invite_action(i) ==
    /\ handler[i].pc = "wait_for_invite_action"
    /\ IF handler[i].tries >= WAIT_FOR_ACTION_TIMEOUT_S
       THEN /\ handler' = [handler EXCEPT ![i] = Handler("returned", handler[i].tries, "TimedOut")]
            /\ responses' = responses
       ELSE IF IsSome(invite_action)
       THEN /\ handler' = [handler EXCEPT ![i] =
                    IF Unwrap(invite_action) = "Accept"
                    THEN Handler("send_ok_response", handler[i].tries, "None")
                    ELSE Handler("returned", handler[i].tries, "Rejected")]
            /\ responses' = responses
       ELSE /\ handler' = [handler EXCEPT ![i] =
                    Handler("wait_for_invite_action", handler[i].tries + 1, "None")]
            /\ responses' = [responses EXCEPT ![i] = Append(@, 180)]
    /\ UNCHANGED <<invite_action, incoming_from, outgoing_contact>>
    /\ UNCHANGED notInvite

\* send_ok_response: acceptor.respond_success(response), res its outcome
send_ok_response(i, res) ==
    /\ handler[i].pc = "send_ok_response"
    /\ responses' = [responses EXCEPT ![i] = Append(@, 200)]
    /\ handler' = [handler EXCEPT ![i] =
            IF res = "Ok" THEN Handler("handle_invite_session", handler[i].tries, "None")
            ELSE Handler("returned", handler[i].tries, "RespondErr")]
    /\ UNCHANGED <<invite_action, incoming_from, outgoing_contact>>
    /\ UNCHANGED notInvite

\* handle_invite_session: session.drive() returns Terminated
handle_invite_session(i) ==
    /\ handler[i].pc = "handle_invite_session"
    /\ handler' = [handler EXCEPT ![i] = Handler("returned", handler[i].tries, "Terminated")]
    /\ UNCHANGED <<invite_action, incoming_from, outgoing_contact, responses>>
    /\ UNCHANGED notInvite

\* InviteAcceptLayer::set_invite_action
set_invite_action(action) ==
    /\ invite_action' = Some(action)
    /\ UNCHANGED <<incoming_from, outgoing_contact, handler, responses>>
    /\ UNCHANGED notInvite

\* InviteAcceptLayer::set_outgoing_contact
set_outgoing_contact ==
    /\ outgoing_contact' = TRUE
    /\ UNCHANGED <<invite_action, incoming_from, handler, responses>>
    /\ UNCHANGED notInvite

\* ------------------------------------------------------------------ call.rs: states

Calls == 1..MaxCalls

\* A Call: tag is the variant (Outgoing, Incoming::WaitingForAction,
\* Incoming::WaitingForActionResponse, Established); the two channels are
\* those of Established ("Waiting" or "Established"), "None" in other variants.
CallState(tag, id, sending_channel, receiving_channel) ==
    [tag |-> tag, id |-> id,
     sending_channel |-> sending_channel, receiving_channel |-> receiving_channel]

\* Outgoing::new (the calling task is spawned by the action that uses it)
Outgoing_new(id) == CallState("Outgoing", id, "None", "None")

\* WaitingForAction::new
WaitingForAction_new(id) == CallState("WaitingForAction", id, "None", "None")

\* WaitingForActionResponse::new
WaitingForActionResponse_new(id) == CallState("WaitingForActionResponse", id, "None", "None")

\* Established::new
Established_new(id) == CallState("Established", id, "Waiting", "Waiting")

\* The sending and the receiving task of a call: "None", "Running" or "Ended".
Media(sending, receiving) == [sending |-> sending, receiving |-> receiving]

\* The mpsc::channel(1) of a WaitingForAction: what is buffered and whether
\* its Sender is dropped.
Channel(buf, closed) == [buf |-> buf, closed |-> closed]

\* What run returns: Ok((next, event)) or Err, with what it did to the
\* media tasks and what it sent.
RunResult(next, res, event, m, s) ==
    [next |-> next, res |-> res, event |-> event, media |-> m, sent |-> s]

\* Call::as_incoming_waiting_for_action(..).is_ok(): the call is the state
\* that owns action_sender.
has_incoming_action(c) == IsSome(c) /\ Unwrap(c).tag = "WaitingForAction"

\* ------------------------------------------------------------------ call.rs: run and terminate

\* a wrong Outgoing::run: keeps the state when the calling task failed
Outgoing_run_keeps(c, t, m) ==
    IF t.pc = "finished" /\ t.res = "Ok"
    THEN RunResult(Some(Established_new(c.id)), "Ok", Some("Established"), m, {})
    ELSE RunResult(Some(c), "Ok", NoneV, m, {})

\* Outgoing::run; t is the calling task
Outgoing_run(c, t, m) ==
    IF t.pc = "finished"
    THEN IF t.res = "Ok"
         THEN RunResult(Some(Established_new(c.id)), "Ok", Some("Established"), m, {})
         ELSE RunResult(NoneV, "Err", NoneV, m, {})
    ELSE RunResult(Some(c), "Ok", NoneV, m, {})

\* Outgoing::terminate, as the calling task it leaves (the token fired and the
\* task awaited to its end) and what the task sent; cancel_res is the result
\* of the library's CANCEL request.
Outgoing_terminate(c, t, cancel_res) ==
    [task |-> CASE t.pc = "select1" ->
                    Task("finished", IF cancel_res = "Ok" THEN "ErrCancelled" ELSE "ErrCancel")
                [] t.pc = "cancelling" ->
                    Task("finished", IF cancel_res = "Ok" THEN t.res ELSE "ErrCancel")
                [] t.pc = "select2" -> Task("finished", "ErrCancelled")
                [] OTHER -> t,
     sent |-> IF t.pc = "select1" THEN {<<c.id, "CANCEL">>} ELSE {}]

\* WaitingForAction::run; the task's result is Some (an Established), None or an error
WaitingForAction_run(c, t, m) ==
    IF t.pc = "finished"
    THEN CASE t.res = "Some" ->
                RunResult(Some(Established_new(c.id)), "Ok", Some("Established"), m, {})
           [] t.res = "None" -> RunResult(NoneV, "Ok", Some("Terminated"), m, {})
           [] OTHER -> RunResult(NoneV, "Err", NoneV, m, {})
    ELSE RunResult(Some(c), "Ok", NoneV, m, {})

\* a wrong WaitingForActionResponse::run: a task that ended with an error
\* is taken for a declined call
WaitingForActionResponse_run_hides_error(c, t, m) ==
    IF t.pc = "finished"
    THEN IF t.res = "Some"
         THEN RunResult(Some(Established_new(c.id)), "Ok", Some("Established"), m, {})
         ELSE RunResult(NoneV, "Ok", Some("Terminated"), m, {})
    ELSE RunResult(Some(c), "Ok", NoneV, m, {})

\* WaitingForActionResponse::run
WaitingForActionResponse_run(c, t, m) ==
    IF t.pc = "finished"
    THEN CASE t.res = "Some" ->
                RunResult(Some(Established_new(c.id)), "Ok", Some("Established"), m, {})
           [] t.res = "None" -> RunResult(NoneV, "Ok", Some("Terminated"), m, {})
           [] OTHER -> RunResult(NoneV, "Err", NoneV, m, {})
    ELSE RunResult(Some(c), "Ok", NoneV, m, {})

\* Established::terminate, as [res, media, sent]; term_res is the result of
\* the library's Call::terminate.  When that fails the `?` returns before
\* the media tasks are aborted.
Established_terminate(c, m, term_res) ==
    IF term_res = "Err"
    THEN [res |-> "Err", media |-> m, sent |-> {}]
    ELSE [res |-> "Ok",
          media |-> Media(IF c.sending_channel = "Established" THEN "Ended" ELSE m.sending,
                          IF c.receiving_channel = "Established" THEN "Ended" ELSE m.receiving),
          sent |-> {<<c.id, "BYE">>}]

\* The outcomes of the select! of Established::run for the call c: the 50 ms
\* sleep, or what the library's Call::run returns.  The one audio media adds
\* its sender and its receiver once each.
EstablishedRunEvents(c) ==
    {"Sleep", "Terminated", "Err"}
    \cup (IF c.sending_channel = "Waiting" THEN {"SenderAdded"} ELSE {})
    \cup (IF c.receiving_channel = "Waiting" THEN {"ReceiverAdded"} ELSE {})

\* a wrong Established::run: a media event spawns its task and leaves the
\* direction Waiting
Established_run_keeps_waiting(c, m, lib, term_res) ==
    CASE lib = "SenderAdded" ->
            RunResult(Some(c), "Ok", NoneV, [m EXCEPT !.sending = "Running"], {})
      [] lib = "ReceiverAdded" ->
            RunResult(Some(c), "Ok", NoneV, [m EXCEPT !.receiving = "Running"], {})
      [] OTHER -> RunResult(Some(c), "Ok", NoneV, m, {})

\* a wrong Established::run: a media event spawns a task whatever the
\* direction's state is
Established_run_respawns(c, m, lib, term_res) ==
    CASE lib = "SenderAdded" ->
            RunResult(Some([c EXCEPT !.sending_channel = "Established"]), "Ok", NoneV,
                      [m EXCEPT !.sending = "Running"], {})
      [] lib = "ReceiverAdded" ->
            RunResult(Some([c EXCEPT !.receiving_channel = "Established"]), "Ok", NoneV,
                      [m EXCEPT !.receiving = "Running"], {})
      [] OTHER -> RunResult(Some(c), "Ok", NoneV, m, {})

\* Established::run; a media event for a direction that is not Waiting
\* panics (run_sending_task, run_receiving_task) before anything is spawned.
Established_run(c, m, lib, term_res) ==
    CASE lib = "Sleep" -> RunResult(Some(c), "Ok", NoneV, m, {})
      [] lib = "SenderAdded" ->
            IF c.sending_channel = "Waiting"
            THEN RunResult(Some([c EXCEPT !.sending_channel = "Established"]), "Ok", NoneV,
                           [m EXCEPT !.sending = "Running"], {})
            ELSE RunResult(NoneV, "Panic", NoneV, m, {})
      [] lib = "ReceiverAdded" ->
            IF c.receiving_channel = "Waiting"
            THEN RunResult(Some([c EXCEPT !.receiving_channel = "Established"]), "Ok", NoneV,
                           [m EXCEPT !.receiving = "Running"], {})
            ELSE RunResult(NoneV, "Panic", NoneV, m, {})
      [] lib = "Terminated" ->
            LET t == Established_terminate(c, m, term_res) IN
            IF t.res = "Err" THEN RunResult(NoneV, "Err", NoneV, t.media, t.sent)
            ELSE RunResult(NoneV, "Ok", Some("Terminated"), t.media, t.sent)
      [] OTHER ->
            LET t == Established_terminate(c, m, term_res) IN
            RunResult(NoneV, "Err", NoneV, t.media, t.sent)

\* CallTrait::run dispatched on the variant (enum_dispatch)
Call_run(c, t, m, lib, term_res) ==
    CASE c.tag = "Outgoing" -> Outgoing_run(c, t, m)
      [] c.tag = "WaitingForAction" -> WaitingForAction_run(c, t, m)
      [] c.tag = "WaitingForActionResponse" -> WaitingForActionResponse_run(c, t, m)
      [] OTHER -> Established_run(c, m, lib, term_res)

\* ------------------------------------------------------------------ call.rs: the calling tasks

\* Outgoing::run_calling_task, first select!: sleep(waiting_duration) wins;
\* the task goes on to outgoing_call.cancel().
OutgoingTaskTimeout(c) ==
    /\ call_task[c].pc = "select1"
    /\ call_task' = [call_task EXCEPT ![c] = Task("cancelling", "ErrTimedOut")]
    /\ sent' = sent \cup {<<c, "CANCEL">>}
    /\ UNCHANGED <<ua_call, call_cancel, action_channel, media, call_events, ended, nmade, since_terminate, spawned, run_step, ua_gone>>
    /\ UNCHANGED notCall

\* Outgoing::run_calling_task, first select!: wait_for_completion wins
OutgoingTaskCompleted(c, resp) ==
    /\ call_task[c].pc = "select1"
    /\ IF resp = "Ok"
       THEN /\ call_task' = [call_task EXCEPT ![c] = Task("select2", "None")]
            /\ sent' = sent
       ELSE /\ call_task' = [call_task EXCEPT ![c] = Task("cancelling", "ErrCompletion")]
            /\ sent' = sent \cup {<<c, "CANCEL">>}
    /\ UNCHANGED <<ua_call, call_cancel, action_channel, media, call_events, ended, nmade, since_terminate, spawned, run_step, ua_gone>>
    /\ UNCHANGED notCall

\* Outgoing::run_calling_task: outgoing_call.cancel().await? returns
OutgoingTaskCancelDone(c, cancel_res) ==
    /\ call_task[c].pc = "cancelling"
    /\ call_task' = [call_task EXCEPT ![c] =
            Task("finished", IF cancel_res = "Ok" THEN call_task[c].res ELSE "ErrCancel")]
    /\ UNCHANGED <<ua_call, call_cancel, action_channel, media, sent, call_events,
                   ended, nmade, since_terminate, spawned, run_step, ua_gone>>
    /\ UNCHANGED notCall

\* Outgoing::run_calling_task, second select!: completed_call.finish() returns
OutgoingTaskFinishDone(c, finish_res) ==
    /\ call_task[c].pc = "select2"
    /\ call_task' = [call_task EXCEPT ![c] =
            Task("finished", IF finish_res = "Ok" THEN "Ok" ELSE "ErrFinish")]
    /\ UNCHANGED <<ua_call, call_cancel, action_channel, media, sent, call_events,
                   ended, nmade, since_terminate, spawned, run_step, ua_gone>>
    /\ UNCHANGED notCall

\* From<DeclineCode> for StatusCode
StatusCode(code) ==
    CASE code = "Busy" -> "486"
      [] code = "ServerInternalError" -> "500"
      [] OTHER -> "603"

\* a wrong select!: a closed channel is taken for the user's decline
IncomingTaskSelect_closed_as_declined(c, branch) ==
    /\ call_task[c].pc = "select"
    /\ IF branch = "recv"
       THEN /\ action_channel[c].buf # <<>> \/ action_channel[c].closed
            /\ IF action_channel[c].buf # <<>>
               THEN /\ call_task' = [call_task EXCEPT ![c] =
                            IF Head(action_channel[c].buf) = "Accept"
                            THEN Task("accept", "None")
                            ELSE Task("decline", StatusCode(Head(action_channel[c].buf)))]
                    /\ action_channel' = [action_channel EXCEPT ![c].buf = Tail(@)]
               ELSE /\ call_task' = [call_task EXCEPT ![c] =
                            Task("decline", StatusCode("UserDeclined"))]
                    /\ action_channel' = action_channel
       ELSE /\ call_cancel[c]
            /\ call_task' = [call_task EXCEPT ![c] = Task("decline", StatusCode("UserDeclined"))]
            /\ action_channel' = action_channel
    /\ UNCHANGED <<ua_call, call_cancel, media, sent, call_events, ended, nmade,
                   since_terminate, spawned, run_step, ua_gone>>
    /\ UNCHANGED notCall

\* WaitingForAction::run_calling_task, its select!: action_receiver.recv()
\* is ready when an action is buffered or the channel is closed, cancelled()
\* when the token has fired; select! takes any ready branch.
IncomingTaskSelect(c, branch) ==
    /\ call_task[c].pc = "select"
    /\ IF branch = "recv"
       THEN /\ action_channel[c].buf # <<>> \/ action_channel[c].closed
            /\ IF action_channel[c].buf # <<>>
               THEN /\ call_task' = [call_task EXCEPT ![c] =
                            IF Head(action_channel[c].buf) = "Accept"
                            THEN Task("accept", "None")
                            ELSE Task("decline", StatusCode(Head(action_channel[c].buf)))]
                    /\ action_channel' = [action_channel EXCEPT ![c].buf = Tail(@)]
               ELSE /\ call_task' = [call_task EXCEPT ![c] = Task("decline_closed", "500")]
                    /\ action_channel' = action_channel
       ELSE /\ call_cancel[c]
            /\ call_task' = [call_task EXCEPT ![c] = Task("decline", StatusCode("UserDeclined"))]
            /\ action_channel' = action_channel
    /\ UNCHANGED <<ua_call, call_cancel, media, sent, call_events, ended, nmade, since_terminate, spawned, run_step, ua_gone>>
    /\ UNCHANGED notCall

\* handle_action, Accept: incoming_call.accept().await? returns
IncomingTaskAccept(c, res) ==
    /\ call_task[c].pc = "accept"
    /\ call_task' = [call_task EXCEPT ![c] =
            Task("finished", IF res = "Ok" THEN "Some" ELSE "ErrAccept")]
    /\ sent' = sent \cup (IF res = "Ok" THEN {<<c, "200">>} ELSE {})
    /\ UNCHANGED <<ua_call, call_cancel, action_channel, media, call_events, ended, nmade, since_terminate, spawned, run_step, ua_gone>>
    /\ UNCHANGED notCall

\* handle_action, Decline: incoming_call.decline(code, reason).await? returns
IncomingTaskDecline(c, res) ==
    /\ call_task[c].pc = "decline"
    /\ call_task' = [call_task EXCEPT ![c] =
            Task("finished", IF res = "Ok" THEN "None" ELSE "ErrDecline")]
    /\ sent' = sent \cup (IF res = "Ok" THEN {<<c, call_task[c].res>>} ELSE {})
    /\ UNCHANGED <<ua_call, call_cancel, action_channel, media, call_events, ended, nmade, since_terminate, spawned, run_step, ua_gone>>
    /\ UNCHANGED notCall

\* run_calling_task, the channel was closed: decline with
\* SERVER_INTERNAL_ERROR, its result dropped, and return the error
IncomingTaskDeclineClosed(c, res) ==
    /\ call_task[c].pc = "decline_closed"
    /\ call_task' = [call_task EXCEPT ![c] = Task("finished", "ErrClosed")]
    /\ sent' = sent \cup (IF res = "Ok" THEN {<<c, "500">>} ELSE {})
    /\ UNCHANGED <<ua_call, call_cancel, action_channel, media, call_events, ended, nmade, since_terminate, spawned, run_step, ua_gone>>
    /\ UNCHANGED notCall

\* A media task leaves its loop: the audio channel is closed or sender.send
\* failed (sending), receiver.recv returned None (receiving).
CallMediaTaskExit(c, dir) ==
    /\ IF dir = "sending"
       THEN /\ media[c].sending = "Running"
            /\ media' = [media EXCEPT ![c].sending = "Ended"]
       ELSE /\ media[c].receiving = "Running"
            /\ media' = [media EXCEPT ![c].receiving = "Ended"]
    /\ UNCHANGED <<ua_call, call_task, call_cancel, action_channel, sent, call_events,
                   ended, nmade, since_terminate, spawned, run_step, ua_gone>>
    /\ UNCHANGED notCall

\* WaitingForAction::send_action, as [res, next, channel]; self is consumed,
\* which drops action_sender.  send fails when the task has dropped the receiver.
WaitingForAction_send_action(c, t, ch, action) ==
    IF t.pc = "finished"
    THEN [res |-> "Err", next |-> NoneV, channel |-> Channel(ch.buf, TRUE)]
    ELSE [res |-> "Ok", next |-> Some(WaitingForActionResponse_new(c.id)),
          channel |-> Channel(Append(ch.buf, action), TRUE)]

\* CallTrait::terminate dispatched on the variant, as what it leaves:
\* fired (the token was cancelled), dropped (action_sender was dropped).
Call_terminate(c, t, m, cancel_res, term_res) ==
    CASE c.tag = "Outgoing" ->
            [res |-> "Ok", task |-> Outgoing_terminate(c, t, cancel_res).task,
             fired |-> TRUE, dropped |-> FALSE, media |-> m,
             sent |-> Outgoing_terminate(c, t, cancel_res).sent]
      [] c.tag = "WaitingForAction" ->
            [res |-> "Ok", task |-> t, fired |-> TRUE, dropped |-> TRUE,
             media |-> m, sent |-> {}]
      [] c.tag = "WaitingForActionResponse" ->
            [res |-> "Ok", task |-> t, fired |-> FALSE, dropped |-> FALSE,
             media |-> m, sent |-> {}]
      [] OTHER ->
            [res |-> Established_terminate(c, m, term_res).res, task |-> t,
             fired |-> FALSE, dropped |-> FALSE,
             media |-> Established_terminate(c, m, term_res).media,
             sent |-> Established_terminate(c, m, term_res).sent]

\* ------------------------------------------------------------------ the coordinator of the call

\* The coordinator that holds the Call is not among the sources; these
\* actions follow the specification's section 4.5: the call is moved out of
\* the slot, run or terminated by value, and what run returns is stored.

CallEmit(kind, id) == call_events' = Append(call_events, Event(kind, id))

\* One more tick has passed for the calls whose terminate has returned.
Ticked(st) == [c \in Calls |-> IF st[c] = Some(0) THEN Some(1) ELSE st[c]]

\* What a run of a call state did: the state and the calling task it was
\* given, for an Established what the select! gave and the state of that
\* media event's direction, and the Result, the event and the next state.
RunStep(call, task, lib, before, res, event, next) ==
    [call |-> call, task |-> task, lib |-> lib, before |-> before,
     res |-> res, event |-> event, next |-> next]

\* The tokio::spawn of run_sending_task and run_receiving_task, counted: sp
\* is the count of the call c before run returned r for the event lib.
Spawned(sp, c, lib, r) ==
    IF c.tag = "Established" /\ r.res = "Ok"
    THEN CASE lib = "SenderAdded" -> [sp EXCEPT !.sending = @ + 1]
           [] lib = "ReceiverAdded" -> [sp EXCEPT !.receiving = @ + 1]
           [] OTHER -> sp
    ELSE sp

\* The record of the run of c, with the calling task t, that returned r.
Stepped(c, t, lib, r) ==
    RunStep(c, t,
            IF c.tag = "Established" THEN lib ELSE "None",
            CASE c.tag = "Established" /\ lib = "SenderAdded" -> c.sending_channel
              [] c.tag = "Established" /\ lib = "ReceiverAdded" -> c.receiving_channel
              [] OTHER -> "None",
            r.res, r.event, r.next)

\* make_call: constructs the outgoing call (Call::from_outgoing)
Coord_make_call ==
    /\ ua_gone = "No"
    /\ ua_call = NoneV
    /\ nmade < MaxCalls
    /\ nmade' = nmade + 1
    /\ ua_call' = Some(Outgoing_new(nmade'))
    /\ call_task' = [call_task EXCEPT ![nmade'] = Task("select1", "None")]
    /\ CallEmit("Calling", nmade')
    /\ UNCHANGED <<call_cancel, action_channel, media, sent, ended, since_terminate, spawned, run_step, ua_gone>>
    /\ UNCHANGED notCall

\* An INVITE arrives with the slot free: creates the incoming call
\* (Call::from_incoming)
Coord_incoming_call ==
    /\ ua_gone = "No"
    /\ ua_call = NoneV
    /\ nmade < MaxCalls
    /\ nmade' = nmade + 1
    /\ ua_call' = Some(WaitingForAction_new(nmade'))
    /\ call_task' = [call_task EXCEPT ![nmade'] = Task("select", "None")]
    /\ CallEmit("IncomingCall", nmade')
    /\ UNCHANGED <<call_cancel, action_channel, media, sent, ended, since_terminate, spawned, run_step, ua_gone>>
    /\ UNCHANGED notCall

\* accept_incoming_call (action = "Accept", send_accept) and
\* decline_incoming_call (action = "UserDeclined", send_decline)
Coord_send_action(action) ==
    /\ ua_gone = "No"
    /\ has_incoming_action(ua_call)
    /\ LET c == Unwrap(ua_call)
           r == WaitingForAction_send_action(c, call_task[c.id], action_channel[c.id], action)
       IN /\ ua_call' = r.next
          /\ action_channel' = [action_channel EXCEPT ![c.id] = r.channel]
          /\ ended' = IF r.res = "Err" THEN ended \cup {c.id} ELSE ended
    /\ UNCHANGED <<call_task, call_cancel, media, sent, call_events, nmade, since_terminate, spawned, run_step, ua_gone>>
    /\ UNCHANGED notCall

\* terminate_call: terminates the call, enqueues CallTerminated
Coord_terminate_call(cancel_res, term_res) ==
    /\ ua_gone = "No"
    /\ IsSome(ua_call)
    /\ LET c == Unwrap(ua_call)
           r == Call_terminate(c, call_task[c.id], media[c.id], cancel_res, term_res)
       IN /\ ua_call' = NoneV
          /\ call_task' = [call_task EXCEPT ![c.id] = r.task]
          /\ call_cancel' = [call_cancel EXCEPT ![c.id] = @ \/ r.fired]
          /\ action_channel' = [action_channel EXCEPT ![c.id].closed = @ \/ r.dropped]
          /\ media' = [media EXCEPT ![c.id] = r.media]
          /\ sent' = sent \cup r.sent
          /\ ended' = IF c.tag # "Established" THEN ended \cup {c.id} ELSE ended
          /\ CallEmit("CallTerminated", c.id)
          /\ since_terminate' = [since_terminate EXCEPT ![c.id] = Some(0)]
    /\ UNCHANGED <<nmade, spawned, run_step, ua_gone>>
    /\ UNCHANGED notCall

\* run, with no event queued: ticks the call state machine.  A call whose
\* calling task has finished without a call to give has ended without
\* being established.
Coord_run(lib, term_res) ==
    /\ ua_gone = "No"
    /\ IsSome(ua_call)
    /\ LET c == Unwrap(ua_call)
           t == call_task[c.id]
           r == Call_run(c, t, media[c.id], lib, term_res)
       IN /\ c.tag = "Established" => lib \in EstablishedRunEvents(c)
          /\ ua_call' = r.next
          /\ media' = [media EXCEPT ![c.id] = r.media]
          /\ sent' = sent \cup r.sent
          /\ action_channel' = [action_channel EXCEPT ![c.id].closed =
                @ \/ (c.tag = "WaitingForAction" /\ t.pc = "finished")]
          /\ ended' = IF c.tag # "Established" /\ t.pc = "finished"
                         /\ t.res \notin {"Ok", "Some"}
                      THEN ended \cup {c.id} ELSE ended
          /\ IF IsSome(r.event)
             THEN CallEmit(IF Unwrap(r.event) = "Established" THEN "CallEstablished"
                           ELSE "CallTerminated", c.id)
             ELSE IF r.res = "Err" THEN CallEmit("CallTerminated", c.id)
             ELSE call_events' = call_events
          /\ spawned' = [spawned EXCEPT ![c.id] = Spawned(@, c, lib, r)]
          /\ run_step' = Stepped(c, call_task[c.id], lib, r)
    /\ since_terminate' = Ticked(since_terminate)
    /\ UNCHANGED <<call_task, call_cancel, nmade, ua_gone>>
    /\ UNCHANGED notCall

\* run on an established call to which the library gives a media event for
\* a direction that already has its task (a protocol violation).  The panic
\* of Established::run unwinds through run: the call, moved out of the slot,
\* is dropped, no event is enqueued, and the coordinator is gone; the tasks
\* that were spawned go on.
Coord_run_repeated(lib) ==
    /\ ua_gone = "No"
    /\ IsSome(ua_call)
    /\ LET c == Unwrap(ua_call)
           r == Established_run(c, media[c.id], lib, "Ok")
       IN /\ c.tag = "Established"
          /\ lib \in {"SenderAdded", "ReceiverAdded"} \ EstablishedRunEvents(c)
          /\ ua_call' = r.next
          /\ media' = [media EXCEPT ![c.id] = r.media]
          /\ sent' = sent \cup r.sent
          /\ spawned' = [spawned EXCEPT ![c.id] = Spawned(@, c, lib, r)]
          /\ run_step' = Stepped(c, call_task[c.id], lib, r)
          /\ ua_gone' = IF r.res = "Panic" THEN "Panicked" ELSE ua_gone
    /\ since_terminate' = Ticked(since_terminate)
    /\ UNCHANGED <<call_task, call_cancel, action_channel, call_events, ended, nmade>>
    /\ UNCHANGED notCall

\* The coordinator is destroyed (shutdown) while it holds a call: the Call is
\* dropped without terminate.  Dropping a WaitingForAction drops
\* action_sender, which closes the action channel; a dropped
\* CancellationToken does not fire, and a dropped JoinHandle detaches its task.
Coord_drop ==
    /\ ua_gone = "No"
    /\ IsSome(ua_call)
    /\ ua_gone' = Unwrap(ua_call).tag
    /\ ua_call' = NoneV
    /\ action_channel' = [action_channel EXCEPT ![Unwrap(ua_call).id].closed =
            @ \/ Unwrap(ua_call).tag = "WaitingForAction"]
    /\ UNCHANGED <<call_task, call_cancel, media, sent, call_events, ended, nmade,
                   since_terminate, spawned, run_step>>
    /\ UNCHANGED notCall

\* run with no event queued and no call in the slot: a tick that does nothing.
Coord_run_idle ==
    /\ ua_gone = "No"
    /\ ua_call = NoneV
    /\ since_terminate' = Ticked(since_terminate)
    /\ since_terminate' # since_terminate
    /\ UNCHANGED <<ua_call, call_task, call_cancel, action_channel, media, sent,
                   call_events, ended, nmade, spawned, run_step, ua_gone>>
    /\ UNCHANGED notCall

\* ------------------------------------------------------------------ RTP

\* const stream_ch_buffer_size
stream_ch_buffer_size == 200

\* SequenceNumber is a u16; RtpTimestamp is a u32, kept as <<high, low>> halves.
TwoPow16 == 2^16

\* u16 + u16 of the Rust build: the wrapped value, and whether it overflowed.
u16_add(a, b) ==
    [value |-> (a + b) % TwoPow16, overflow |-> a + b >= TwoPow16]

\* u32 + u32 of the Rust build, for n < 2^31.
u32_add(t, n) ==
    LET lo == t[2] + (n % TwoPow16)
        hi == t[1] + (n \div TwoPow16) + (lo \div TwoPow16)
    IN  [value |-> <<hi % TwoPow16, lo % TwoPow16>>, overflow |-> hi >= TwoPow16]

\* t < u as u32 values.
u32_less(t, u) == t[1] < u[1] \/ (t[1] = u[1] /\ t[2] < u[2])

RtpFactory(seq, ts, pt) ==
    [rtp_sequence_number |-> seq, rtp_timestamp |-> ts, rtp_pt |-> pt]

\* RtpFactory::new
RtpFactory_new(rtp_pt) == RtpFactory(0, <<0, 0>>, rtp_pt)

RtpPacket(pt, seq, ts, len, n) ==
    [pt |-> pt, sequence_number |-> seq, timestamp |-> ts, payload_len |-> len, n |-> n]

\* A variant that advances the timestamp by one per packet, as if it counted
\* packets.
create_rtp_packet_ts_by_one(f, payload_len, n, checks) ==
    LET seq == u16_add(f.rtp_sequence_number, 1)
        ts == u32_add(f.rtp_timestamp, 1)
    IN  IF checks /\ (seq.overflow \/ ts.overflow)
        THEN [panic |-> TRUE, packet |-> NoneV, factory |-> f]
        ELSE [panic |-> FALSE,
              packet |-> Some(RtpPacket(f.rtp_pt, f.rtp_sequence_number, f.rtp_timestamp,
                                        payload_len, n)),
              factory |-> RtpFactory(seq.value, ts.value, f.rtp_pt)]

\* RtpFactory::create_rtp_packet for the n-th payload given to the factory.
\* The packet takes the current counters; the counters are then advanced
\* with plain `+`, which panics on overflow when the build checks overflow and
\* wraps otherwise.  A panic unwinds before the packet is returned.
create_rtp_packet(f, payload_len, n, checks) ==
    LET seq == u16_add(f.rtp_sequence_number, 1)
        ts == u32_add(f.rtp_timestamp, payload_len)
    IN  IF checks /\ (seq.overflow \/ ts.overflow)
        THEN [panic |-> TRUE, packet |-> NoneV, factory |-> f]
        ELSE [panic |-> FALSE,
              packet |-> Some(RtpPacket(f.rtp_pt, f.rtp_sequence_number, f.rtp_timestamp,
                                        payload_len, n)),
              factory |-> RtpFactory(seq.value, ts.value, f.rtp_pt)]

\* The factory after create_rtp_packet has returned for k payloads of len
\* bytes each (k * len is computed in halves to stay within the integers).
RtpFactory_after(k, len, pt) ==
    LET kh == k \div TwoPow16
        kl == k % TwoPow16
    IN  RtpFactory(kl, <<(kh * len + ((kl * len) \div TwoPow16)) % TwoPow16,
                         (kl * len) % TwoPow16>>, pt)

\* Histories the packetizer starts from: none, one short of the last 16-bit
\* sequence number, and one packet short of 2^32 bytes of payload (which a
\* build that checks overflow cannot reach, by the first).
Histories(checks) ==
    IF checks THEN {0, 65534} ELSE {0, 65534, 26843545}

\* resample_to_g711_alaw: the number of samples after conversion to 8000 Hz.
resample_to_g711_alaw(frames, sample_rate_in) ==
    (frames * 8000) \div sample_rate_in

\* encode_g711_alaw: one byte per sample.
encode_g711_alaw(samples) == samples

\* A variant of try_send without the capacity of the channel.
try_send_unbounded(ch, data) ==
    IF ch.closed THEN [channel |-> ch, res |-> "Closed"]
    ELSE [channel |-> Channel(Append(ch.buf, data), ch.closed), res |-> "Ok"]

\* Sender::try_send on a channel made by mpsc::channel(stream_ch_buffer_size):
\* it returns at once, with the message queued, or with Full or Closed and the
\* channel as it was.
try_send(ch, data) ==
    IF ch.closed THEN [channel |-> ch, res |-> "Closed"]
    ELSE IF Len(ch.buf) >= stream_ch_buffer_size THEN [channel |-> ch, res |-> "Full"]
    ELSE [channel |-> Channel(Append(ch.buf, data), ch.closed), res |-> "Ok"]

\* What the last try_send of a producer was given and did.
TrySent(queue, data, before, after, res) ==
    [queue |-> queue, data |-> data, before |-> before, after |-> after, res |-> res]

\* Input::read_stream_data on a callback buffer of n samples: the first
\* channel is resampled and encoded, and the whole result is one chunk given
\* to try_send, which drops it when the channel is full or closed.
read_stream_data(n, channels, sample_rate) ==
    /\ ncallbacks < MaxChunks
    /\ ncallbacks' = ncallbacks + 1
    /\ LET frames == (n + channels - 1) \div channels
           data == encode_g711_alaw(resample_to_g711_alaw(frames, sample_rate))
           r == try_send(audio_channel, data)
       IN  /\ audio_channel' = r.channel
           /\ try_sent' = TrySent("input", data, audio_channel.buf, r.channel.buf, r.res)
    /\ UNCHANGED <<overflow_checks, codec_pt, rtp_factory, sending_task, packets, made,
                   dequeued, sent_at_end>>
    /\ UNCHANGED outVars
    /\ UNCHANGED notRtp

\* One turn of the loop of the sending task: recv gave a payload, the factory
\* makes its packet, and send gives send_res; the loop breaks when send fails,
\* and the receiver is dropped with the task.
run_sending_task(send_res) ==
    /\ sending_task = "Running"
    /\ audio_channel.buf # <<>>
    /\ LET payload_len == Head(audio_channel.buf)
           r == create_rtp_packet(rtp_factory, payload_len, made + 1, overflow_checks)
           over == r.panic \/ send_res = "Err"
       IN  /\ rtp_factory' = r.factory
           /\ packets' = packets \o r.packet
           /\ made' = IF r.panic THEN made ELSE made + 1
           /\ sending_task' = IF r.panic THEN "Panicked"
                              ELSE IF send_res = "Err" THEN "Ended"
                              ELSE "Running"
           /\ audio_channel' = IF over THEN Channel(<<>>, TRUE)
                               ELSE Channel(Tail(audio_channel.buf), audio_channel.closed)
           /\ dequeued' = Append(dequeued, payload_len)
           /\ sent_at_end' = IF over THEN Some(Len(packets')) ELSE sent_at_end
    /\ UNCHANGED <<overflow_checks, codec_pt, ncallbacks, try_sent>>
    /\ UNCHANGED outVars
    /\ UNCHANGED notRtp

\* The input stream is destroyed: its callback, which owns the Sender of the
\* audio channel, is dropped.  The chunks already buffered stay receivable.
audio_sender_dropped ==
    /\ ~audio_channel.closed
    /\ audio_channel' = Channel(audio_channel.buf, TRUE)
    /\ UNCHANGED <<overflow_checks, codec_pt, rtp_factory, sending_task, packets, made,
                   ncallbacks, dequeued, sent_at_end, try_sent>>
    /\ UNCHANGED outVars
    /\ UNCHANGED notRtp

\* The loop of the sending task ends: recv gave None, the channel being
\* closed and empty.
run_sending_task_closed ==
    /\ sending_task = "Running"
    /\ audio_channel = Channel(<<>>, TRUE)
    /\ sending_task' = "Ended"
    /\ sent_at_end' = Some(Len(packets))
    /\ UNCHANGED <<overflow_checks, codec_pt, rtp_factory, audio_channel, packets, made,
                   ncallbacks, dequeued, try_sent>>
    /\ UNCHANGED outVars
    /\ UNCHANGED notRtp

\* One turn of the loop of the sending task, for the turns counted by made.
sending_task_turn(send_res) ==
    /\ made < MaxChunks
    /\ run_sending_task(send_res)

\* One turn of the loop of the receiving task: recv gave a packet, and its
\* payload is given to try_send, the result of which is ignored.
run_receiving_task(payload_len) ==
    /\ nreceived < MaxChunks
    /\ nreceived' = nreceived + 1
    /\ LET r == try_send(out_channel, payload_len)
       IN  /\ out_channel' = r.channel
           /\ try_sent' = TrySent("output", payload_len, out_channel.buf, r.channel.buf,
                                   r.res)
    /\ UNCHANGED <<overflow_checks, codec_pt, rtp_factory, audio_channel, sending_task,
                   packets, made, ncallbacks, dequeued, sent_at_end, nwritten>>
    /\ UNCHANGED notRtp

\* decode_g711_alaw: one sample per byte.
decode_g711_alaw(bytes) == bytes

\* resample_from_g711_alaw: the number of samples after conversion from
\* 8000 Hz.
resample_from_g711_alaw(samples, sample_rate_out) ==
    (samples * sample_rate_out) \div 8000

\* The number of chunks the loop of write_stream_data takes from buf with
\* have samples in its buffer: it takes one, and stops when the buffer is as
\* long as the output or try_recv has no chunk.
RECURSIVE Received(_, _, _, _)
Received(buf, have, output_len, sample_rate) ==
    IF buf = <<>> THEN 0
    ELSE LET got == have + resample_from_g711_alaw(decode_g711_alaw(Head(buf)),
                                                  sample_rate)
         IN  IF got >= output_len THEN 1
             ELSE 1 + Received(Tail(buf), got, output_len, sample_rate)

\* Output::write_stream_data on a callback buffer of output_len samples.
write_stream_data(output_len, sample_rate) ==
    /\ nwritten < MaxChunks
    /\ nwritten' = nwritten + 1
    /\ LET k == Received(out_channel.buf, 0, output_len, sample_rate)
       IN  out_channel' = Channel(SubSeq(out_channel.buf, k + 1, Len(out_channel.buf)),
                                  out_channel.closed)
    /\ UNCHANGED <<overflow_checks, codec_pt, rtp_factory, audio_channel, sending_task,
                   packets, made, ncallbacks, dequeued, sent_at_end, try_sent,
                   nreceived>>
    /\ UNCHANGED notRtp

\* ------------------------------------------------------------------ Registrator

\* Code::kind of the SIP library, as used by registrator.rs.
CodeKind(code) ==
    IF code \in 100..199 THEN "Provisional"
    ELSE IF code \in 200..299 THEN "Success"
    ELSE IF code \in 300..399 THEN "Redirection"
    ELSE IF code \in 400..499 THEN "RequestFailure"
    ELSE IF code \in 500..599 THEN "ServerFailure"
    ELSE IF code \in 600..699 THEN "GlobalFailure"
    ELSE "Custom"

\* A variant without the arm for GlobalFailure.
RegistrationStatusKind_from_no_global(code) ==
    CASE CodeKind(code) = "Success" -> "Successful"
      [] CodeKind(code) = "RequestFailure" -> "Failed"
      [] CodeKind(code) = "ServerFailure" -> "Failed"
      [] OTHER -> "Unregistered"

\* impl From<Code> for RegistrationStatusKind
RegistrationStatusKind_from(code) ==
    CASE CodeKind(code) = "Success" -> "Successful"
      [] CodeKind(code) = "GlobalFailure" -> "Failed"
      [] CodeKind(code) = "RequestFailure" -> "Failed"
      [] CodeKind(code) = "ServerFailure" -> "Failed"
      [] OTHER -> "Unregistered"

\* impl From<StatusLine> for RegistrationStatus, applied to status_code.
RegistrationStatus_from ==
    /\ status_kind = NoneV
    /\ status_kind' = Some(RegistrationStatusKind_from(status_code))
    /\ UNCHANGED <<reg_task, last_response_status, registering, status_lock, waiter,
                   stopper, reg_step, attempts, nregops, status_code>>
    /\ UNCHANGED notReg

\* The task spawned by run_registration.  pc is where it stands:
\*   none      not spawned          spawned   spawned, not yet polled
\*   start     running, at the top of registering_task_inner
\*   send      suspended in send_request
\*   receive   suspended in receive_final
\*   publish   running, receive_final has returned resp
\*   expiry    suspended in wait_for_expiry
\*   sleep     suspended in the sleep of 10 s
\*   cancelled dropped by the runtime after abort
\* guard: it holds the MutexGuard of registration.  aborted: abort() was
\* called on its JoinHandle.  outcome: how its last REGISTER attempt went.
RegTask(pc, resp, guard, aborted, outcome) ==
    [pc |-> pc, resp |-> resp, guard |-> guard, aborted |-> aborted,
     outcome |-> outcome]

\* Where the task is suspended; the runtime drops an aborted task there, and
\* never polls it again.
Suspended(t) ==
    \/ t.pc \in {"spawned", "send", "receive", "expiry", "sleep"}
    \/ t.pc = "publish" /\ status_lock # "free"

\* The final responses a registrar gives.
FinalCodes == {200, 302, 403}

\* The task exists: it was spawned and the runtime has not dropped it.
TaskAlive == registering.pc \notin {"none", "cancelled"}

\* What a controller operation returned; alive tells whether the task existed
\* when the operation was called.
RegStep(op, res, alive) == [op |-> op, res |-> res, alive |-> alive]

\* Registrator::run_registration
run_registration ==
    /\ nregops < MaxRegOps
    /\ stopper = "idle"
    /\ nregops' = nregops + 1
    /\ IF reg_task = NoneV
       THEN /\ reg_task' = Some(1)
            /\ registering' = RegTask("spawned", NoneV, FALSE, FALSE, "None")
            /\ reg_step' = RegStep("run", "Ok", TaskAlive)
       ELSE /\ reg_step' = RegStep("run", "Panic", TaskAlive)
            /\ UNCHANGED <<reg_task, registering>>
    /\ UNCHANGED <<last_response_status, status_lock, waiter, stopper, attempts,
                   status_code, status_kind>>
    /\ UNCHANGED notReg

\* Registrator::stop_registration up to the abort: it locks reg_task and, if a
\* handle is there, aborts the task and goes on to clear the status.
stop_registration_abort ==
    /\ nregops < MaxRegOps
    /\ stopper = "idle"
    /\ nregops' = nregops + 1
    /\ IF IsSome(reg_task)
       THEN /\ registering' = [registering EXCEPT !.aborted = TRUE]
            /\ stopper' = "clearing"
            /\ reg_step' = RegStep("stop", "Pending", TaskAlive)
       ELSE /\ reg_step' = RegStep("stop", "Ok", TaskAlive)
            /\ UNCHANGED <<registering, stopper>>
    /\ UNCHANGED <<reg_task, last_response_status, status_lock, waiter, attempts,
                   status_code, status_kind>>
    /\ UNCHANGED notReg

\* Registrator::stop_registration from set_last_response_status(None) on.
stop_registration_clear ==
    /\ stopper = "clearing"
    /\ status_lock = "free"
    /\ last_response_status' = NoneV
    /\ stopper' = "idle"
    /\ reg_step' = [reg_step EXCEPT !.res = "Ok"]
    /\ UNCHANGED <<reg_task, registering, status_lock, waiter, attempts, nregops,
                   status_code, status_kind>>
    /\ UNCHANGED notReg

\* registering_task_inner: lock registration, create_register, send_request.
\* A task not yet polled starts only if it was not aborted.
TaskLock ==
    /\ registering.pc \in {"spawned", "start"}
    /\ registering.pc = "spawned" => ~registering.aborted
    /\ attempts < MaxRegisters
    /\ attempts' = attempts + 1
    /\ registering' = [registering EXCEPT !.pc = "send", !.guard = TRUE]
    /\ UNCHANGED <<reg_task, last_response_status, status_lock, waiter, stopper,
                   reg_step, nregops, status_code, status_kind>>
    /\ UNCHANGED notReg

\* A variant of TaskSend in which an error of send_request ends the task.
TaskSend_error_ends(res) ==
    /\ registering.pc = "send"
    /\ ~registering.aborted
    /\ registering' =
          IF res = "Ok" THEN [registering EXCEPT !.pc = "receive"]
          ELSE [registering EXCEPT !.pc = "ended", !.guard = FALSE,
                                   !.outcome = "SendErr"]
    /\ UNCHANGED <<reg_task, last_response_status, status_lock, waiter, stopper,
                   reg_step, attempts, nregops, status_code, status_kind>>
    /\ UNCHANGED notReg

\* send_request returns: on an error `?` leaves registering_task_inner, the
\* guard is dropped, the error is logged and the loop starts over.
TaskSend(res) ==
    /\ registering.pc = "send"
    /\ ~registering.aborted
    /\ registering' =
          IF res = "Ok" THEN [registering EXCEPT !.pc = "receive"]
          ELSE [registering EXCEPT !.pc = "start", !.guard = FALSE,
                                   !.outcome = "SendErr"]
    /\ UNCHANGED <<reg_task, last_response_status, status_lock, waiter, stopper,
                   reg_step, attempts, nregops, status_code, status_kind>>
    /\ UNCHANGED notReg

\* receive_final returns a final response or an error.
TaskReceive(res, code) ==
    /\ registering.pc = "receive"
    /\ ~registering.aborted
    /\ registering' =
          IF res = "Err"
          THEN [registering EXCEPT !.pc = "start", !.guard = FALSE,
                                   !.outcome = "ReceiveErr"]
          ELSE [registering EXCEPT !.pc = "publish", !.resp = Some(code)]
    /\ UNCHANGED <<reg_task, last_response_status, status_lock, waiter, stopper,
                   reg_step, attempts, nregops, status_code, status_kind>>
    /\ UNCHANGED notReg

\* set_last_response_status(Some(line)) and the match on the kind of the code,
\* in the poll in which receive_final returned.
TaskPublish ==
    /\ registering.pc = "publish"
    /\ status_lock = "free"
    /\ last_response_status' = registering.resp
    /\ registering' =
          IF CodeKind(Unwrap(registering.resp)) = "Success"
          THEN [registering EXCEPT !.pc = "expiry", !.outcome = "Success"]
          ELSE [registering EXCEPT !.pc = "sleep", !.outcome = "NotSuccess"]
    /\ UNCHANGED <<reg_task, status_lock, waiter, stopper, reg_step, attempts,
                   nregops, status_code, status_kind>>
    /\ UNCHANGED notReg

\* wait_for_expiry or the sleep is over: registering_task_inner returns Ok,
\* dropping the guard, and the loop starts over.
TaskWake ==
    /\ registering.pc \in {"expiry", "sleep"}
    /\ ~registering.aborted
    /\ registering' = [registering EXCEPT !.pc = "start", !.guard = FALSE]
    /\ UNCHANGED <<reg_task, last_response_status, status_lock, waiter, stopper,
                   reg_step, attempts, nregops, status_code, status_kind>>
    /\ UNCHANGED notReg

\* The runtime drops the aborted task where it is suspended.
TaskCancelled ==
    /\ registering.aborted
    /\ Suspended(registering)
    /\ registering' = [registering EXCEPT !.pc = "cancelled", !.guard = FALSE]
    /\ UNCHANGED <<reg_task, last_response_status, status_lock, waiter, stopper,
                   reg_step, attempts, nregops, status_code, status_kind>>
    /\ UNCHANGED notReg

\* wait_for_registration_response: one turn of its loop.  It locks the status;
\* a status there is converted and returned, otherwise it sleeps 100 ms with
\* the guard still alive.
wait_for_registration_response ==
    /\ waiter.pc \in {"idle", "retry"}
    /\ status_lock = "free"
    /\ IF IsSome(last_response_status)
       THEN /\ waiter' = [pc |-> "idle",
                          kind |-> RegistrationStatusKind_from(
                                        Unwrap(last_response_status))]
            /\ status_lock' = status_lock
       ELSE /\ waiter' = [pc |-> "sleeping", kind |-> "None"]
            /\ status_lock' = "waiter"
    /\ UNCHANGED <<reg_task, last_response_status, registering, stopper, reg_step,
                   attempts, nregops, status_code, status_kind>>
    /\ UNCHANGED notReg

\* The sleep of wait_for_registration_response is over; the guard is dropped at
\* the end of the loop body.
WaiterWake ==
    /\ waiter.pc = "sleeping"
    /\ waiter' = [waiter EXCEPT !.pc = "retry"]
    /\ status_lock' = "free"
    /\ UNCHANGED <<reg_task, last_response_status, registering, stopper, reg_step,
                   attempts, nregops, status_code, status_kind>>
    /\ UNCHANGED notReg

\* ------------------------------------------------------------------ Device

\* What a stream operation did: op on the device of direction dir, with the
\* device's build_stream giving dev, returned res; before is the stream the
\* device held when the operation began.
AudioStep(op, dir, dev, res, before) ==
    [op |-> op, dir |-> dir, dev |-> dev, res |-> res, before |-> before]

\* A variant of Device::create_stream without the check for a stream.
Device_create_stream_replaces(stream, dev, id) ==
    IF dev = "Ok" THEN [res |-> "Ok", stream |-> Some(id)]
    ELSE [res |-> "Err", stream |-> stream]

\* Device::create_stream on a device holding stream (an Option); the stream
\* it builds is numbered id.
Device_create_stream(stream, dev, id) ==
    IF IsSome(stream) THEN [res |-> "Err", stream |-> stream]
    ELSE IF dev = "Ok" THEN [res |-> "Ok", stream |-> Some(id)]
    ELSE [res |-> "Err", stream |-> stream]

\* Device::destroy_stream: self.stream.take()
Device_destroy_stream(stream) == NoneV

\* AudioSystem::create_output_stream
create_output_stream(dev) ==
    /\ nstreams < MaxStreams
    /\ LET r == Device_create_stream(out_device, dev, nstreams + 1)
       IN  /\ out_device' = r.stream
           /\ nstreams' = IF r.res = "Ok" THEN nstreams + 1 ELSE nstreams
           /\ audio_step' = AudioStep("create", "out", dev, r.res, out_device)
    /\ UNCHANGED in_device
    /\ UNCHANGED notAudio

\* AudioSystem::destroy_output_stream
destroy_output_stream ==
    /\ out_device' = Device_destroy_stream(out_device)
    /\ audio_step' = AudioStep("destroy", "out", "None", "Ok", out_device)
    /\ UNCHANGED <<in_device, nstreams>>
    /\ UNCHANGED notAudio

\* AudioSystem::create_input_stream
create_input_stream(dev) ==
    /\ nstreams < MaxStreams
    /\ LET r == Device_create_stream(in_device, dev, nstreams + 1)
       IN  /\ in_device' = r.stream
           /\ nstreams' = IF r.res = "Ok" THEN nstreams + 1 ELSE nstreams
           /\ audio_step' = AudioStep("create", "in", dev, r.res, in_device)
    /\ UNCHANGED out_device
    /\ UNCHANGED notAudio

\* AudioSystem::destroy_input_stream
destroy_input_stream ==
    /\ in_device' = Device_destroy_stream(in_device)
    /\ audio_step' = AudioStep("destroy", "in", "None", "Ok", in_device)
    /\ UNCHANGED <<out_device, nstreams>>
    /\ UNCHANGED notAudio

\* ------------------------------------------------------------------ Spec

Results == {"Ok", "Err"}

InitControl ==
    /\ stop_app = FALSE
    /\ loop_pc = "update"
    /\ out_stream = FALSE
    /\ in_stream = FALSE
    /\ events = <<>>
    /\ reg_data = NoneV
    /\ out_call = NoneV
    /\ detached = {}
    /\ wire = {}
    /\ ncmds = 0
    /\ ncalls = 0
    /\ nregs = 0
    /\ emitted = <<>>
    /\ delivered = <<>>
    /\ step = [op |-> "None", res |-> "None"]
    /\ tick = Tick("None", "None")
    /\ invite_action = NoneV
    /\ incoming_from = NoneV
    /\ outgoing_contact = FALSE
    /\ handler = [i \in Invites |-> Handler("idle", 0, "None")]
    /\ responses = [i \in Invites |-> <<>>]
    /\ ua_call = NoneV
    /\ call_task = [c \in Calls |-> Task("none", "None")]
    /\ call_cancel = [c \in Calls |-> FALSE]
    /\ action_channel = [c \in Calls |-> Channel(<<>>, FALSE)]
    /\ media = [c \in Calls |-> Media("None", "None")]
    /\ sent = {}
    /\ call_events = <<>>
    /\ ended = {}
    /\ nmade = 0
    /\ since_terminate = [c \in Calls |-> NoneV]
    /\ spawned = [c \in Calls |-> Media(0, 0)]
    /\ run_step = RunStep(CallState("None", 0, "None", "None"), Task("none", "None"),
                          "None", "None", "None", NoneV, NoneV)
    /\ ua_gone = "No"
    /\ reg_task = NoneV
    /\ last_response_status = NoneV
    /\ registering = RegTask("none", NoneV, FALSE, FALSE, "None")
    /\ status_lock = "free"
    /\ waiter = [pc |-> "idle", kind |-> "None"]
    /\ stopper = "idle"
    /\ reg_step = RegStep("None", "None", FALSE)
    /\ attempts = 0
    /\ nregops = 0
    /\ status_kind = NoneV
    /\ out_device = NoneV
    /\ in_device = NoneV
    /\ audio_step = AudioStep("None", "None", "None", "None", NoneV)
    /\ nstreams = 0

\* A sending task just spawned, in either build.
\* The receiving direction of a call that has just been established.
InitReceiving ==
    /\ out_channel = Channel(<<>>, FALSE)
    /\ try_sent = TrySent("None", 0, <<>>, <<>>, "None")
    /\ nreceived = 0
    /\ nwritten = 0

InitPacketizer ==
    /\ overflow_checks \in BOOLEAN
    /\ codec_pt = 8
    /\ rtp_factory = RtpFactory_new(codec_pt)
    /\ audio_channel = Channel(<<>>, FALSE)
    /\ sending_task = "Running"
    /\ packets = <<>>
    /\ made = 0
    /\ ncallbacks = 0
    /\ dequeued = <<>>
    /\ sent_at_end = NoneV
    /\ InitReceiving

Init ==
    /\ InitControl
    /\ InitPacketizer
    /\ status_code = 200

Next ==
    \/ \E lib \in {"SenderAdded", "ReceiverAdded", "Terminated", "Err"}, r \in Results :
            App_update_user_agent(lib, r)
    \/ App_no_command
    \/ \E outcome \in Results : App_register_ua(outcome)
    \/ App_unregister
    \/ \E outdev \in Results, indev \in Results, outcome \in Results :
            App_make_call(outdev, indev, outcome)
    \/ \E r \in Results : App_terminate_call(r)
    \/ App_stop_app
    \/ CallingTaskTimeout
    \/ \E resp \in Results : CallingTaskCompleted(resp)
    \/ \E r \in Results : CallingTaskCancelDone(r)
    \/ \E r \in Results : CallingTaskFinishDone(r)
    \/ \E dir \in {"sender", "receiver"} : MediaTaskExit(dir)
    \/ \E t \in detached : DetachedTaskExit(t)

Spec == Init /\ [][Next]_vars

NextInvite ==
    \/ \E i \in Invites : receive(i)
    \/ \E i \in Invites : handle_invite_req_contact(i)
    \/ \E i \in Invites : handle_invite_req_active(i)
    \/ \E i \in Invites, dialog \in Results : handle_invite_req_record(i, dialog)
    \/ \E i \in Invites : wait_for_invite_action(i)
    \/ \E i \in Invites, res \in Results : send_ok_response(i, res)
    \/ \E i \in Invites : handle_invite_session(i)
    \/ \E action \in {"Accept", "Reject"} : set_invite_action(action)
    \/ set_outgoing_contact

SpecInvite == Init /\ [][NextInvite]_vars

\* The steps of the coordinator.
NextCoord ==
    \/ Coord_make_call
    \/ Coord_incoming_call
    \/ \E action \in {"Accept", "UserDeclined"} : Coord_send_action(action)
    \/ \E cancel_res \in Results, term_res \in Results :
            Coord_terminate_call(cancel_res, term_res)
    \/ \E lib \in {"Sleep", "SenderAdded", "ReceiverAdded", "Terminated", "Err"},
          term_res \in Results : Coord_run(lib, term_res)
    \/ Coord_run_idle

\* The steps of the tasks the call states spawned.
NextCallTasks ==
    \/ \E c \in Calls : OutgoingTaskTimeout(c)
    \/ \E c \in Calls, resp \in Results : OutgoingTaskCompleted(c, resp)
    \/ \E c \in Calls, r \in Results : OutgoingTaskCancelDone(c, r)
    \/ \E c \in Calls, r \in Results : OutgoingTaskFinishDone(c, r)
    \/ \E c \in Calls, branch \in {"recv", "cancelled"} : IncomingTaskSelect(c, branch)
    \/ \E c \in Calls, r \in Results : IncomingTaskAccept(c, r)
    \/ \E c \in Calls, r \in Results : IncomingTaskDecline(c, r)
    \/ \E c \in Calls, r \in Results : IncomingTaskDeclineClosed(c, r)
    \/ \E c \in Calls, dir \in {"sending", "receiving"} : CallMediaTaskExit(c, dir)

NextCall == NextCoord \/ NextCallTasks

SpecCall == Init /\ [][NextCall]_vars

\* The call state machine with a library that may repeat a media event.
NextProtocol ==
    \/ NextCall
    \/ \E lib \in {"SenderAdded", "ReceiverAdded"} : Coord_run_repeated(lib)

SpecProtocol == Init /\ [][NextProtocol]_vars

\* The call state machine with a coordinator that may be destroyed while it
\* holds a call; the tasks it leaves go on.
NextDrop ==
    \/ NextCall
    \/ Coord_drop

SpecDrop == Init /\ [][NextDrop]_vars

\* The remote never answers, the operator gives no terminate and no stop
\* command; timers fire, the library's requests return and the loop goes on.
NextTimeout ==
    \/ \E lib \in {"SenderAdded", "ReceiverAdded", "Terminated", "Err"}, r \in Results :
            App_update_user_agent(lib, r)
    \/ App_no_command
    \/ \E outcome \in Results : App_register_ua(outcome)
    \/ App_unregister
    \/ \E outdev \in Results, indev \in Results, outcome \in Results :
            App_make_call(outdev, indev, outcome)
    \/ CallingTaskTimeout
    \/ \E r \in Results : CallingTaskCancelDone(r)

SpecTimeout ==
    /\ Init
    /\ [][NextTimeout]_vars
    /\ WF_vars(CallingTaskTimeout)
    /\ WF_vars(\E r \in Results : CallingTaskCancelDone(r))
    /\ WF_vars(\E lib \in {"SenderAdded", "ReceiverAdded", "Terminated", "Err"},
                  r \in Results : App_update_user_agent(lib, r))
    /\ WF_vars(App_no_command)

\* The packetizer of one sending task, in either build, after one of the
\* histories of 160-byte payloads.
InitRtp ==
    /\ InitControl
    /\ status_code = 200
    /\ overflow_checks \in BOOLEAN
    /\ made \in Histories(overflow_checks)
    /\ codec_pt \in {0, 8}
    /\ rtp_factory = RtpFactory_after(made, 160, codec_pt)
    /\ audio_channel = Channel(<<>>, FALSE)
    /\ sending_task = "Running"
    /\ packets = <<>>
    /\ ncallbacks = 0
    /\ dequeued = <<>>
    /\ sent_at_end = NoneV
    /\ InitReceiving

NextRtp ==
    \/ \E n \in {160, 1920, 2048}, channels \in {1, 2}, sample_rate \in {8000, 48000} :
            read_stream_data(n, channels, sample_rate)
    \/ \E send_res \in Results : run_sending_task(send_res)
    \/ audio_sender_dropped
    \/ run_sending_task_closed

SpecRtp == InitRtp /\ [][NextRtp]_vars

\* Chunks of alternating lengths, so that the order of a queue shows.
Queued(k) == [i \in 1..k |-> IF i % 2 = 1 THEN 160 ELSE 80]

\* The lengths of the two queues of a call whose consumers have been slow:
\* empty, one short of full, and full.
Backlogs == {0, stream_ch_buffer_size - 1, stream_ch_buffer_size}

\* The two audio queues of an established call, each with a backlog.
InitQueue ==
    /\ InitControl
    /\ status_code = 200
    /\ overflow_checks \in BOOLEAN
    /\ codec_pt = 8
    /\ rtp_factory = RtpFactory_new(codec_pt)
    /\ \E k \in Backlogs : audio_channel = Channel(Queued(k), FALSE)
    /\ \E k \in Backlogs : out_channel = Channel(Queued(k), FALSE)
    /\ sending_task = "Running"
    /\ packets = <<>>
    /\ made = 0
    /\ ncallbacks = 0
    /\ dequeued = <<>>
    /\ sent_at_end = NoneV
    /\ try_sent = TrySent("None", 0, <<>>, <<>>, "None")
    /\ nreceived = 0
    /\ nwritten = 0

NextQueue ==
    \/ \E n \in {160}, channels \in {1, 2}, sample_rate \in {8000} :
            read_stream_data(n, channels, sample_rate)
    \/ \E send_res \in Results : sending_task_turn(send_res)
    \/ \E payload_len \in {80, 160} : run_receiving_task(payload_len)
    \/ \E output_len \in {160, 320}, sample_rate \in {8000} :
            write_stream_data(output_len, sample_rate)

SpecQueue == InitQueue /\ [][NextQueue]_vars

NextAudio ==
    \/ \E dev \in Results : create_output_stream(dev)
    \/ destroy_output_stream
    \/ \E dev \in Results : create_input_stream(dev)
    \/ destroy_input_stream

SpecAudio == Init /\ [][NextAudio]_vars

NextReg ==
    \/ run_registration
    \/ stop_registration_abort
    \/ stop_registration_clear
    \/ TaskLock
    \/ \E res \in Results : TaskSend(res)
    \/ \E res \in Results, code \in FinalCodes : TaskReceive(res, code)
    \/ TaskPublish
    \/ TaskWake
    \/ TaskCancelled
    \/ wait_for_registration_response
    \/ WaiterWake

SpecReg == Init /\ [][NextReg]_vars

\* The runtime keeps polling the task, requests and timers come back, and the
\* mutex of the status is granted in the order of arrival.
SpecRegFair ==
    /\ Init
    /\ [][NextReg]_vars
    /\ WF_vars(TaskLock)
    /\ WF_vars(\E res \in Results : TaskSend(res))
    /\ WF_vars(\E res \in Results, code \in FinalCodes : TaskReceive(res, code))
    /\ SF_vars(TaskPublish)
    /\ WF_vars(TaskWake)
    /\ WF_vars(WaiterWake)

\* One status code, of any value a u16 status line can carry up to MaxCode.
InitKind ==
    /\ InitControl
    /\ InitPacketizer
    /\ status_code \in 0..MaxCode

NextKind == RegistrationStatus_from

SpecKind == InitKind /\ [][NextKind]_vars

\* ------------------------------------------------------------------ properties

Min(S) == CHOOSE x \in S : \A y \in S : x <= y

\* The events of the log about call c, in order.
RECURSIVE EventsOf(_, _)
EventsOf(log, c) ==
    IF log = <<>> THEN <<>>
    ELSE IF Head(log).call = c THEN <<Head(log).kind>> \o EventsOf(Tail(log), c)
    ELSE EventsOf(Tail(log), c)

CallIds == 1..(MaxCmds + 1)

\* C1: the events UserAgent::run returns are the events pushed, in the order
\* they were pushed, none lost and none twice (what was pushed is what was
\* returned followed by what is still queued); and a loop iteration that
\* finds an event queued returns the oldest one and does not touch the call.
C1_EventsInOrder ==
    /\ [](emitted = delivered \o events)
    /\ [][(loop_pc = "update" /\ loop_pc' = "command" /\ events # <<>>)
            => /\ delivered' = Append(delivered, Head(events))
               /\ events' = Tail(events)
               /\ UNCHANGED <<out_call, wire, emitted, detached>>]_vars

\* Two events were queued at once and events have been returned.
C1_Witness == Len(events) = 2 /\ Len(delivered) >= 2

\* C2: at most one call and one registration binding are held, and while a
\* call is held no task of an earlier call is still running.
C2_OneCallNoOldTasks ==
    /\ Len(out_call) <= 1
    /\ Len(reg_data) <= 1
    /\ IsSome(out_call) => \A t \in detached : t[1] = Unwrap(out_call).id

\* C3: in the events pushed, between a CallEstablished and the next Calling
\* (or IncomingCall) there is exactly one CallTerminated, at most one when no
\* Calling follows yet; and no call has two CallTerminated.
C3_EstablishedThenOneTerminated ==
    /\ \A i \in 1..Len(emitted) :
          emitted[i].kind = "CallEstablished" =>
            LET after == {j \in (i + 1)..Len(emitted) :
                            emitted[j].kind \in {"Calling", "IncomingCall"}}
                last  == IF after = {} THEN Len(emitted) ELSE Min(after) - 1
                terms == {k \in (i + 1)..last : emitted[k].kind = "CallTerminated"}
            IN IF after = {} THEN Cardinality(terms) <= 1 ELSE Cardinality(terms) = 1
    /\ \A c \in CallIds :
          Cardinality({k \in 1..Len(emitted) :
                          emitted[k] = Event("CallTerminated", c)}) <= 1

\* An established call was terminated and another call was placed.
C3_Witness ==
    \E i, k, j \in 1..Len(emitted) :
        /\ i < k /\ k < j
        /\ emitted[i].kind = "CallEstablished"
        /\ emitted[k].kind = "CallTerminated"
        /\ emitted[j].kind = "Calling"

\* C4: when the remote never answers and no terminate is given, every call
\* placed ends with CANCEL issued, the call slot free of it and exactly the
\* events Calling, CallTerminated; at no time has the call other events.
C4_Placed(c) == Event("Calling", c) \in {emitted[k] : k \in 1..Len(emitted)}

C4_Done(c) ==
    /\ EventsOf(emitted, c) = <<"Calling", "CallTerminated">>
    /\ <<c, "CANCEL">> \in wire
    /\ ~(IsSome(out_call) /\ Unwrap(out_call).id = c)

C4_TimeoutCancelsAndTerminates ==
    /\ [](\A c \in CallIds :
            EventsOf(emitted, c) \in {<<>>, <<"Calling">>, <<"Calling", "CallTerminated">>})
    /\ \A c \in CallIds : C4_Placed(c) ~> C4_Done(c)

\* A call timed out, was cancelled and its CallTerminated was returned.
C4_Witness ==
    /\ C4_Done(1)
    /\ Event("CallTerminated", 1) \in {delivered[k] : k \in 1..Len(delivered)}

\* C5: a step in which a call ends without being established (its calling
\* task finished with a decline, a timeout, a cancellation or a failure and
\* the call is run, or the call is terminated before it is established)
\* leaves the coordinator with no call and no incoming-action channel; and
\* the coordinator never holds a call that has ended so.
C5_EndedCallLeavesNothing ==
    /\ [](\A c \in ended : ~(IsSome(ua_call) /\ Unwrap(ua_call).id = c))
    /\ [][ended' # ended => (ua_call' = NoneV /\ ~has_incoming_action(ua_call'))]_vars

\* An incoming call was declined with 603 and an outgoing call timed out
\* and was cancelled; both have been run to their end.
C5_Witness ==
    /\ \E c \in ended : <<c, "603">> \in sent /\ call_task[c] = Task("finished", "None")
    /\ \E c \in ended : call_task[c] = Task("finished", "ErrTimedOut")
    /\ ua_call = NoneV

\* C6: a MakeCall command executed while not registered or while a call is
\* active fails and changes nothing; and a Calling event is pushed only by a
\* step that constructs a new outgoing call.
C6_MakeCallRejectedChangesNothing ==
    /\ [][(ncmds' # ncmds /\ step'.op = "MakeCall"
            /\ (~is_registered \/ has_active_call))
            => /\ step'.res = "Err"
               /\ UNCHANGED <<out_call, events, emitted, out_stream, in_stream,
                              reg_data, wire, detached, ncalls>>]_vars
    /\ [][(Len(emitted') > Len(emitted)
            /\ emitted'[Len(emitted')].kind = "Calling")
            => /\ ncalls' = ncalls + 1
               /\ out_call' = Some(OutCall_new(ncalls'))
               /\ ~has_active_call]_vars

\* A MakeCall was refused while a call was active.
C6_Witness ==
    /\ step = [op |-> "MakeCall", res |-> "Err"]
    /\ has_active_call
    /\ is_registered

\* C7: a TerminateCall command with an active call leaves no active call and
\* pushes exactly one CallTerminated, for that call; with no active call it
\* fails and pushes nothing.
C7_TerminateCall ==
    [][(ncmds' # ncmds /\ step'.op = "TerminateCall")
        => IF has_active_call
           THEN /\ step'.res = "Ok"
                /\ out_call' = NoneV
                /\ emitted' = Append(emitted, Event("CallTerminated", Unwrap(out_call).id))
                /\ events' = Append(events, Event("CallTerminated", Unwrap(out_call).id))
           ELSE /\ step'.res = "Err"
                /\ UNCHANGED <<out_call, events, emitted>>]_vars

\* An established call was terminated by command (BYE went out).
C7_Witness ==
    /\ step = [op |-> "TerminateCall", res |-> "Ok"]
    /\ \E c \in CallIds : <<c, "BYE">> \in wire
    /\ ~has_active_call

\* C8: an Unregister command drops the binding and pushes Unregistered, and
\* leaves the call slot, the call's tasks, the wire and the streams as they are.
C8_UnregisterKeepsCall ==
    [][(ncmds' # ncmds /\ step'.op = "Unregister")
        => /\ reg_data' = NoneV
           /\ emitted' = Append(emitted, Event("Unregistered", 0))
           /\ events' = Append(events, Event("Unregistered", 0))
           /\ UNCHANGED <<out_call, detached, wire, out_stream, in_stream>>]_vars

\* A call placed before an Unregister was established and terminated after it.
C8_Witness ==
    \E h, i, j, k \in 1..Len(emitted) :
        /\ h < i /\ i < j /\ j < k
        /\ emitted[h] = Event("Calling", 1)
        /\ emitted[i].kind = "Unregistered"
        /\ emitted[j] = Event("CallEstablished", 1)
        /\ emitted[k] = Event("CallTerminated", 1)

\* C9: a Register command pushes Registered and installs a new binding when
\* the REGISTER exchange succeeded, and only then: when it failed, the
\* binding and the queue are as before.
C9_RegisterOnlyOnSuccess ==
    [][(ncmds' # ncmds /\ step'.op = "Register")
        => IF step'.res = "Ok"
           THEN /\ IsSome(reg_data') /\ reg_data' # reg_data
                /\ emitted' = Append(emitted, Event("Registered", 0))
                /\ events' = Append(events, Event("Registered", 0))
           ELSE UNCHANGED <<reg_data, events, emitted>>]_vars

\* A Register failed while a binding was held.
C9_Witness ==
    /\ step = [op |-> "Register", res |-> "Err"]
    /\ is_registered

\* C10: an INVITE that arrives while another one is being handled gets a 486
\* final response, and the INVITE being handled stays the one recorded.
C10_BusyInviteGets486 ==
    \A i \in Invites :
        (handler[i].pc = "returned" /\ handler[i].why = "ActiveIncoming")
            => /\ \E k \in 1..Len(responses[i]) : responses[i][k] = 486
               /\ IsSome(incoming_from) /\ Unwrap(incoming_from) # i

C12_SequenceNumbersContiguous ==
    /\ sending_task # "Panicked"
    /\ \A k \in 1..Len(packets) :
            packets[k].sequence_number = (packets[k].n - 1) % TwoPow16

\* C13 as stated: the first packet has timestamp 0, the timestamps never
\* decrease, and each exceeds the previous one by the previous payload length.
C13_TimestampsNeverDecrease ==
    /\ \A k \in 1..Len(packets) : packets[k].n = 1 => packets[k].timestamp = <<0, 0>>
    /\ \A k \in 1..(Len(packets) - 1) :
            LET sum == u32_add(packets[k].timestamp, packets[k].payload_len)
            IN  /\ ~u32_less(packets[k + 1].timestamp, packets[k].timestamp)
                /\ ~sum.overflow
                /\ packets[k + 1].timestamp = sum.value

\* C13, amended: the first packet has timestamp 0 and each packet's timestamp
\* is the previous packet's plus the previous payload length modulo 2^32.
C13_TimestampsAdvanceMod32 ==
    /\ \A k \in 1..Len(packets) : packets[k].n = 1 => packets[k].timestamp = <<0, 0>>
    /\ \A k \in 1..(Len(packets) - 1) :
            packets[k + 1].timestamp =
                u32_add(packets[k].timestamp, packets[k].payload_len).value

\* Three packets, the timestamp having wrapped between the first two.
C13_Witness ==
    /\ Len(packets) = 3
    /\ u32_less(packets[2].timestamp, packets[1].timestamp)
    /\ packets[1].payload_len # packets[2].payload_len

\* C14: every packet the sending task produced has a payload of at most 160
\* bytes.
C14_PayloadAtMost160 ==
    \A k \in 1..Len(packets) : packets[k].payload_len <= 160

\* C15: the kind derived from a status code is Successful for 2xx, Failed for
\* 4xx, 5xx and 6xx, and Unregistered for every other code.
C15_KindOfCode ==
    IsSome(status_kind) =>
        Unwrap(status_kind) = IF status_code \in 200..299 THEN "Successful"
                              ELSE IF status_code \in 400..699 THEN "Failed"
                              ELSE "Unregistered"

C15_Witness ==
    /\ status_code = 603
    /\ status_kind = Some("Failed")

\* C16: run_registration fails its assertion only while a registration task
\* is running, so not on a fresh controller and not after stop_registration
\* has stopped the task.
C16_RunAssertsOnlyWhileRunning ==
    (reg_step.op = "run" /\ reg_step.res = "Panic") => reg_step.alive

\* C17: from the return of stop_registration until the next call of
\* run_registration the cached last response is absent.
C17_StoppedMeansNoStatus ==
    (reg_step.op = "stop" /\ reg_step.res = "Ok") => last_response_status = NoneV

\* C18: the registration task is ended only by an abort, and after a failed
\* REGISTER attempt (transport error or non-2xx response) a task that is not
\* aborted starts another one.
C18_LoopRetriesForever ==
    /\ [](registering.pc = "cancelled" => registering.aborted)
    /\ [](registering.pc \in {"none", "spawned", "start", "send", "receive",
                               "publish", "expiry", "sleep", "cancelled"})
    /\ \A n \in 1..(MaxRegisters - 1) :
            (/\ attempts = n
             /\ registering.pc \in {"start", "sleep"}
             /\ registering.outcome \in {"SendErr", "ReceiveErr", "NotSuccess"})
                ~> (attempts > n \/ registering.aborted)

\* A third REGISTER is under way after a transport error and then a non-2xx
\* response.
C18_Witness ==
    /\ attempts = 3
    /\ registering.pc = "send"
    /\ registering.outcome = "NotSuccess"
    /\ ~registering.aborted

\* The stream of the device the last stream operation was about.
DeviceOf(dir) == IF dir = "out" THEN out_device ELSE in_device

\* C19 as stated: a create on a device that has a stream fails and leaves that
\* stream, a destroy leaves no stream, and a create on a device without a
\* stream succeeds.
C19_CreateAfterDestroySucceeds ==
    /\ (audio_step.op = "create" /\ IsSome(audio_step.before))
            => (audio_step.res = "Err" /\ DeviceOf(audio_step.dir) = audio_step.before)
    /\ audio_step.op = "destroy" => DeviceOf(audio_step.dir) = NoneV
    /\ (audio_step.op = "create" /\ audio_step.before = NoneV)
            => (audio_step.res = "Ok" /\ IsSome(DeviceOf(audio_step.dir)))

\* C19, amended: a create on a device that has a stream fails and leaves that
\* stream; a destroy leaves no stream; a create on a device without a stream
\* succeeds if the device builds the stream, and otherwise fails and leaves
\* the device without a stream.
C19_StreamPerDevice ==
    /\ (audio_step.op = "create" /\ IsSome(audio_step.before))
            => (audio_step.res = "Err" /\ DeviceOf(audio_step.dir) = audio_step.before)
    /\ audio_step.op = "destroy" => DeviceOf(audio_step.dir) = NoneV
    /\ (audio_step.op = "create" /\ audio_step.before = NoneV)
            => IF audio_step.dev = "Ok"
               THEN audio_step.res = "Ok" /\ IsSome(DeviceOf(audio_step.dir))
               ELSE audio_step.res = "Err" /\ DeviceOf(audio_step.dir) = NoneV

\* The input device refused a create and kept the stream it held, after the
\* output device's stream was destroyed.
C19_Witness ==
    /\ audio_step = AudioStep("create", "in", "Ok", "Err", Some(2))
    /\ in_device = Some(2)
    /\ out_device = NoneV

\* C20: an outgoing calling task that ended with the cancellation error has
\* sent CANCEL for its call.
C20_CancelledTaskSentCancel ==
    \A c \in Calls :
        call_task[c] = Task("finished", "ErrCancelled") => <<c, "CANCEL">> \in sent

\* C21: once terminate has returned for a call and one further tick has
\* passed, neither its calling task nor its media tasks are still running.
C21_NoTaskAfterTerminateAndTick ==
    \A c \in Calls :
        since_terminate[c] = Some(1) =>
            /\ call_task[c].pc \in {"none", "finished"}
            /\ media[c].sending # "Running"
            /\ media[c].receiving # "Running"

\* C22: once a call is no longer the one held in the call slot (it has left
\* the established state by local terminate, remote Terminated, a runner
\* error or a failed library terminate), neither of its media tasks runs.
C22_MediaTasksNeverOutliveCall ==
    \A c \in Calls :
        (c <= nmade /\ (ua_call = NoneV \/ Unwrap(ua_call).id # c)) =>
            /\ media[c].sending # "Running"
            /\ media[c].receiving # "Running"

\* C23: for every call, each media direction has had at most one task
\* spawned, and the direction of the call in the slot is Established exactly
\* when its task has been spawned (so it never goes back to Waiting); the
\* first SenderAdded (ReceiverAdded) succeeds and a repeated one panics.
C23_DirectionEstablishedOnce ==
    /\ \A c \in Calls : spawned[c].sending <= 1 /\ spawned[c].receiving <= 1
    /\ IsSome(ua_call) /\ Unwrap(ua_call).tag = "Established" =>
            LET c == Unwrap(ua_call) IN
            /\ (c.sending_channel = "Established") <=> (spawned[c.id].sending = 1)
            /\ (c.sending_channel = "Waiting") <=> (spawned[c.id].sending = 0)
            /\ (c.receiving_channel = "Established") <=> (spawned[c.id].receiving = 1)
            /\ (c.receiving_channel = "Waiting") <=> (spawned[c.id].receiving = 0)
    /\ run_step.before = "Waiting" => run_step.res = "Ok"
    /\ run_step.before = "Established" => run_step.res = "Panic"

\* a repeated media event was given to an established call that had spawned
\* both of its tasks, and run panicked
C23_Witness ==
    /\ run_step.before = "Established"
    /\ run_step.res = "Panic"
    /\ spawned[run_step.call.id] = Media(1, 1)

\* C24: once terminate has been called on an incoming call still waiting
\* for an action (its token has fired), its task declines with 603 only: it
\* never takes the closed-channel path, never sends 500, and ends with the
\* decline done or failed.
C24_TerminateDeclinesWith603 ==
    \A c \in Calls :
        (call_cancel[c] /\ \E i \in DOMAIN call_events :
                              call_events[i] = Event("IncomingCall", c)) =>
            /\ call_task[c].pc \in {"select", "decline", "finished"}
            /\ call_task[c].pc = "decline" => call_task[c].res = "603"
            /\ call_task[c].pc = "finished" => call_task[c].res \in {"None", "ErrDecline"}
            /\ <<c, "500">> \notin sent

\* The action channel of the call c closed with no action sent and no
\* cancellation: the coordinator was destroyed while c waited for an action.
ClosedBeforeAction(c) == ua_gone = "WaitingForAction" /\ c = nmade

\* C25: when the action channel of an incoming call closes before any
\* action and without cancellation, its task goes from the select! to the
\* decline with 500 and from there to its end with the closed-channel
\* error; it never accepts and sends no response other than the 500.
C25_ClosedChannelDeclinesWith500 ==
    /\ [](\A c \in Calls : ClosedBeforeAction(c) =>
            /\ call_task[c].pc \in {"select", "decline_closed", "finished"}
            /\ call_task[c].pc = "decline_closed" => call_task[c].res = "500"
            /\ call_task[c].pc = "finished" => call_task[c].res = "ErrClosed"
            /\ \A code \in {"200", "486", "603"} : <<c, code>> \notin sent)
    /\ [][\A c \in Calls :
            (ClosedBeforeAction(c) /\ call_task[c].pc # "finished"
                /\ call_task'[c].pc = "finished") =>
                    /\ call_task[c].pc = "decline_closed"
                    /\ sent' \subseteq sent \cup {<<c, "500">>}]_vars

\* the channel closed before any action, the task declined with 500 and
\* ended with the closed-channel error
C25_Witness ==
    /\ ClosedBeforeAction(nmade)
    /\ call_task[nmade] = Task("finished", "ErrClosed")
    /\ <<nmade, "500">> \in sent

\* The run recorded last was a WaitingForActionResponse::run.
ResponseRun == run_step.call.tag = "WaitingForActionResponse"

\* C26: a call that can still be sent an action has been sent none, and the
\* channel never holds more than one; a run of a call whose action was sent
\* gives the same state and no event while the task is unfinished, gives
\* Established with the established call when the task accepted, gives
\* Terminated with no call when the task declined, and gives the error
\* with no call and no event when accept or decline failed; no call is
\* announced established twice.
C26_OneActionThenOneTransition ==
    /\ \A c \in Calls : Len(action_channel[c].buf) <= 1
    /\ has_incoming_action(ua_call) =>
            /\ action_channel[Unwrap(ua_call).id] = Channel(<<>>, FALSE)
            /\ call_task[Unwrap(ua_call).id].pc = "select"
    /\ ResponseRun =>
            LET t == run_step.task IN
            /\ t.pc # "finished" =>
                    /\ run_step.res = "Ok" /\ run_step.event = NoneV
                    /\ run_step.next = Some(run_step.call)
            /\ t = Task("finished", "Some") =>
                    /\ run_step.res = "Ok" /\ run_step.event = Some("Established")
                    /\ run_step.next = Some(Established_new(run_step.call.id))
            /\ t = Task("finished", "None") =>
                    /\ run_step.res = "Ok" /\ run_step.event = Some("Terminated")
                    /\ run_step.next = NoneV
            /\ (t.pc = "finished" /\ t.res \in {"ErrAccept", "ErrDecline"}) =>
                    /\ run_step.res = "Err" /\ run_step.event = NoneV
                    /\ run_step.next = NoneV
            /\ t.pc = "finished" => t.res \in {"Some", "None", "ErrAccept", "ErrDecline"}
    /\ \A c \in Calls :
            Cardinality({i \in DOMAIN call_events :
                            call_events[i] = Event("CallEstablished", c)}) <= 1

\* Accept was sent, accept() failed, and the run that found the task
\* finished gave the error
C26_Witness ==
    /\ ResponseRun
    /\ run_step.task = Task("finished", "ErrAccept")
    /\ run_step.res = "Err"

\* C26 as stated: the run that finds the task finished after Accept gives
\* Established with the established call, and after Decline gives
\* Terminated with no call.
C26_ActionEndsAsChosen ==
    (ResponseRun /\ run_step.task.pc = "finished") =>
        /\ run_step.task.res \in {"Some", "ErrAccept"} =>
                /\ run_step.event = Some("Established")
                /\ run_step.next = Some(Established_new(run_step.call.id))
        /\ run_step.task.res \in {"None", "ErrDecline"} =>
                /\ run_step.event = Some("Terminated")
                /\ run_step.next = NoneV

Directions == {"sending", "receiving"}

\* The call c is the one in the slot.
Alive(c) == IsSome(ua_call) /\ Unwrap(ua_call).id = c

\* The audio endpoints have been handed to the call c and it has not
\* failed: it was made as an outgoing call, or it is an incoming call that
\* was sent Accept and whose accept() has not failed.
Handed(c) ==
    /\ Alive(c)
    /\ \/ Unwrap(ua_call).tag \in {"Outgoing", "Established"}
       \/ /\ Unwrap(ua_call).tag = "WaitingForActionResponse"
          /\ \/ action_channel[c].buf = <<"Accept">>
             \/ call_task[c].pc = "accept"
             \/ call_task[c] = Task("finished", "Some")

\* Who holds the audio endpoint of the direction dir of the call c: the
\* state in the slot (Outgoing, or Established with the direction Waiting),
\* the Accept action (buffered, or in the task that is accepting), the
\* Established that the finished task returned and run has not yet taken,
\* the direction's media task.
Holders(c, dir) ==
    LET st == Unwrap(ua_call)
        ch == IF dir = "sending" THEN st.sending_channel ELSE st.receiving_channel
        mt == IF dir = "sending" THEN media[c].sending ELSE media[c].receiving
    IN (IF Alive(c) /\ (st.tag = "Outgoing" \/ (st.tag = "Established" /\ ch = "Waiting"))
        THEN {"state"} ELSE {})
       \cup (IF action_channel[c].buf = <<"Accept">> \/ call_task[c].pc = "accept"
             THEN {"action"} ELSE {})
       \cup (IF Alive(c) /\ st.tag = "WaitingForActionResponse"
                /\ call_task[c] = Task("finished", "Some")
             THEN {"result"} ELSE {})
       \cup (IF mt = "Running" THEN {"task"} ELSE {})

\* The endpoint of the direction dir of the call c was dropped while the
\* call is in the slot: the direction's media task ended.
DroppedEarly(c, dir) ==
    (IF dir = "sending" THEN media[c].sending ELSE media[c].receiving) = "Ended"

C28_OnePacketPerChunk ==
    /\ Len(packets) = Len(dequeued)
    /\ \A i \in DOMAIN packets :
            /\ packets[i].payload_len = dequeued[i]
            /\ packets[i].pt = codec_pt
    /\ IsSome(sent_at_end) => Len(packets) = Unwrap(sent_at_end)

\* C29: the registration task never sends a REGISTER while the attempt
\* before it is one that failed by a transport error: a sleep, which comes
\* only after a published response, lies between a failed attempt and the
\* next request.
C29_RetryAfterDelay ==
    registering.pc \in {"send", "receive"} =>
        registering.outcome \notin {"SendErr", "ReceiveErr"}

\* C30: the registration task does not hold the guard on the registration
\* while it waits for the expiry or sleeps the retry delay.
C30_GuardReleasedBeforeSleep ==
    registering.pc \in {"expiry", "sleep"} => ~registering.guard

\* C31: a caller of wait_for_registration_response does not hold the lock
\* of the last response while it sleeps, stop_registration does not wait for
\* that lock while it holds the lock of the task handle, and the task that
\* has a response to publish never finds the lock held by a waiter.
C31_NoLockAcrossSuspension ==
    /\ waiter.pc = "sleeping" => status_lock # "waiter"
    /\ stopper = "clearing" => status_lock = "free"
    /\ registering.pc = "publish" => status_lock # "waiter"

\* C32: neither audio queue ever holds more than stream_ch_buffer_size chunks,
\* and a producer's try_send returns at once: it queues the chunk behind the
\* others when there is room, and when the queue is full it drops the chunk
\* and leaves the queued chunks as they were.
C32_QueuesBoundedAndLossy ==
    /\ Len(audio_channel.buf) <= stream_ch_buffer_size
    /\ Len(out_channel.buf) <= stream_ch_buffer_size
    /\ try_sent.res = "Ok" => try_sent.after = Append(try_sent.before, try_sent.data)
    /\ try_sent.res = "Full" => try_sent.after = try_sent.before
    /\ Len(try_sent.before) >= stream_ch_buffer_size => try_sent.res # "Ok"

\* Both producers have found their queue full: the input callback first, and
\* the receiving task last, with the output queue still full.
C32_Witness ==
    /\ try_sent.queue = "output"
    /\ try_sent.res = "Full"
    /\ Len(out_channel.buf) = stream_ch_buffer_size
    /\ ncallbacks > 0
    /\ Len(audio_channel.buf) = stream_ch_buffer_size
    /\ made = 0

\* C33: the loop of App::run has ended exactly when StopApp has been
\* executed: the stop flag is set by StopApp only, a command that failed
\* leaves the flag unset and the loop running, and once the flag is set no
\* command is executed and UserAgent::run is not called again.
C33_LoopEndsOnlyOnStopApp ==
    /\ []((loop_pc = "stopped") <=> stop_app)
    /\ [](stop_app => step = [op |-> "StopApp", res |-> "Ok"])
    /\ [](step.res = "Err" => ~stop_app /\ loop_pc # "stopped")
    /\ [][ncmds' # ncmds /\ step'.res = "Err" => ~stop_app' /\ loop_pc' = "update"]_vars
    /\ [][stop_app => /\ stop_app'
                      /\ UNCHANGED <<loop_pc, ncmds, step, tick, delivered, events,
                                     emitted, in_stream, out_stream, reg_data>>]_vars

\* StopApp was executed after other commands, with a call still held and
\* one of its tasks running.
C33_Witness ==
    /\ stop_app
    /\ loop_pc = "stopped"
    /\ ncmds >= 3
    /\ IsSome(out_call)
    /\ detached # {}

\* C34: when MakeCall has just returned an error, no stream that it created
\* is left: a stream exists then only for a call that is held or for a call
\* whose CallTerminated is still queued.
C34_FailedMakeCallLeavesNoStream ==
    (/\ step = [op |-> "MakeCall", res |-> "Err"]
     /\ loop_pc = "update"
     /\ tick = Tick("None", "None")
     /\ out_stream \/ in_stream)
        => \/ IsSome(out_call)
           \/ \E k \in 1..Len(events) : events[k].kind = "CallTerminated"

\* C35: a MakeCall that is executed while the agent is registered and holds
\* no call does not fail with the CallTerminated of the call before still in
\* the event queue, that is with that call's streams not yet destroyed.
C35_MakeCallAfterStreamsDestroyed ==
    (/\ step = [op |-> "MakeCall", res |-> "Err"]
     /\ loop_pc = "update"
     /\ tick = Tick("None", "None")
     /\ is_registered
     /\ ~has_active_call)
        => \A k \in 1..Len(events) : events[k].kind # "CallTerminated"

\* C36: when terminate has returned for an outgoing call whose calling task
\* had finished with the completed call, and run had not yet made the call
\* established, BYE has been sent for that call.
C36_TerminateCompletedOutgoingSendsBye ==
    \A c \in Calls :
        (/\ IsSome(since_terminate[c])
         /\ call_task[c] = Task("finished", "Ok")
         /\ \A k \in 1..Len(call_events) : call_events[k] # Event("CallEstablished", c))
            => <<c, "BYE">> \in sent

\* C37: an incoming call for which terminate has returned before run made it
\* established is not left accepted towards the remote party: if its 200 was
\* sent, BYE was sent too.
C37_TerminatedIncomingNotLeftAccepted ==
    \A c \in Calls :
        (/\ IsSome(since_terminate[c])
         /\ <<c, "200">> \in sent
         /\ \A k \in 1..Len(call_events) : call_events[k] # Event("CallEstablished", c))
            => <<c, "BYE">> \in sent

\* C38: when handle_invite_req has returned for an INVITE for which it made
\* a server dialog, a final response (200 or above) has been sent for it.
C38_DialogGetsFinalResponse ==
    \A i \in Invites :
        (/\ handler[i].pc = "returned"
         /\ handler[i].why \in {"Rejected", "TimedOut", "RespondErr", "Terminated"})
            => \E k \in 1..Len(responses[i]) : responses[i][k] >= 200

\* The INVITEs that handle_invite_req is handling: past its check of the
\* active incoming and not yet returned.
Handling ==
    {i \in Invites : handler[i].pc \in {"lock_inner", "wait_for_invite_action",
                                        "send_ok_response", "handle_invite_session"}}

\* C39: at most one INVITE is handled at a time, and once no INVITE is
\* handled the layer holds no active incoming, so that the next INVITE passes
\* the check of handle_invite_req.
C39_OneInviteAtATime ==
    /\ Cardinality(Handling) <= 1
    /\ Handling = {} => incoming_from = NoneV

\* C40: the event queue never holds more than two events, and at most one
\* when the command of the iteration is about to be executed; an iteration
\* that starts with an event queued delivers the oldest one and pushes
\* nothing in its update half; and a step pushes at most one event.
C40_QueueAtMostTwo ==
    /\ [](Len(events) <= 2)
    /\ [](loop_pc = "command" => Len(events) <= 1)
    /\ [][(loop_pc = "update" /\ loop_pc' = "command" /\ events # <<>>)
            => /\ events' = Tail(events)
               /\ delivered' = Append(delivered, Head(events))]_vars
    /\ [][Len(events') > Len(events)
            => /\ events' = Append(events, emitted'[Len(emitted')])
               /\ loop_pc = "update" => events = <<>>]_vars

\* An iteration starts with two events queued, the older one pushed by the
\* call step and the other by the command of the same iteration.
C40_Witness ==
    /\ loop_pc = "update"
    /\ Len(events) = 2
    /\ events[1].kind = "CallEstablished"
    /\ events[2].kind = "CallTerminated"

====
